---- MODULE Spec2Model ----
(***************************************************************************)
(* Kitchen Orchestration Engine of the Food_Order_App (src/App.tsx,        *)
(* src/unnamed/part_000): inventory, timeline, order ledger, the manual    *)
(* action path (executeAction), the planning agent's tool-call dispatcher  *)
(* (handleApprovedFunctionCalls) and the verification matcher              *)
(* (verifyServedDishRef.current).                                          *)
(*                                                                         *)
(* Strings the program normalises are sequences of one-character strings,  *)
(* so that normalizeIngredientName is computed character by character.     *)
(* An await is the end of an action: the code between two awaits runs      *)
(* without interruption (one JavaScript task plus its microtasks).         *)
(***************************************************************************)
EXTENDS Integers, Sequences, FiniteSets, TLC

\* --------------------------------------------------------------------------
\* Bounds of the model
\* --------------------------------------------------------------------------
MaxTimeline == 2
MaxOrders == 2
MaxVerify == 2
MaxManualCalls == 2
MaxSelected == 1

\* --------------------------------------------------------------------------
\* JavaScript values
\* --------------------------------------------------------------------------
\* the value undefined where a string is expected
Undefined == <<"#undefined">>
\* null / undefined where an Ingredient is expected
NullIngredient == [name |-> <<"#null">>, emoji |-> "#null"]
UndefinedIngredient == [name |-> Undefined, emoji |-> "#undefined"]
\* a sentinel that is the pending marker itself
ErrorIngredientAsNull == NullIngredient
\* the literal 'error' of the sentinel result
ErrorIngredient == [name |-> <<"e", "r", "r", "o", "r">>, emoji |-> "x-mark"]
\* a timeline text: the template, the dish and the order name put into it
Text(template, dish, orderName) == <<template, dish, orderName>>
NoText == Text("#undefined", Undefined, "")
NoAction == "#undefined"
NoIngredients == <<Undefined>>

UpperCase ==
  <<"A", "B", "C", "D", "E", "F", "G", "H", "I", "J", "K", "L", "M",
    "N", "O", "P", "Q", "R", "S", "T", "U", "V", "W", "X", "Y", "Z">>
LowerCase ==
  <<"a", "b", "c", "d", "e", "f", "g", "h", "i", "j", "k", "l", "m",
    "n", "o", "p", "q", "r", "s", "t", "u", "v", "w", "x", "y", "z">>
Digits == {"0", "1", "2", "3", "4", "5", "6", "7", "8", "9"}

Range(s) == {s[i] : i \in 1..Len(s)}

LowerOf == [u \in Range(UpperCase) |-> LowerCase[CHOOSE i \in 1..Len(UpperCase) : UpperCase[i] = u]]

\* a conversion that leaves every character as it is
toLowerCaseIdentity(c) == c

\* String.prototype.toLowerCase, one character
toLowerCase(c) == IF c \in DOMAIN LowerOf THEN LowerOf[c] ELSE c

KeptCharacters == Range(LowerCase) \cup Digits

\* a character the regular expression [^a-z0-9] does not match
IsAlnumLower(c) == c \in KeptCharacters

\* name.toLowerCase().replace(/[^a-z0-9]/g, '')
normalizeIngredientName(name) ==
  SelectSeq([i \in 1..Len(name) |-> toLowerCase(name[i])], IsAlnumLower)

\* a lookup that finds nothing
findIngredientInInventoryNone(name, inv) == NullIngredient

\* inventory.find(ing => normalize(ing.name) === normalize(name)) || null
findIngredientInInventory(name, inv) ==
  IF \E i \in 1..Len(inv) : normalizeIngredientName(inv[i].name) = normalizeIngredientName(name)
  THEN inv[CHOOSE i \in 1..Len(inv) :
             /\ normalizeIngredientName(inv[i].name) = normalizeIngredientName(name)
             /\ \A j \in 1..(i - 1) :
                  normalizeIngredientName(inv[j].name) # normalizeIngredientName(name)]
  ELSE NullIngredient

\* a duplicate test that compares the names as written
isDuplicateExactName(name, inv) == \E i \in 1..Len(inv) : inv[i].name = name

isDuplicateIngredient(name, inv) == findIngredientInInventory(name, inv) # NullIngredient


\* --------------------------------------------------------------------------
\* Catalogues (samples of the constant tables of src/unnamed/part_000)
\* --------------------------------------------------------------------------
\* createAction of 'boil', 'serve on leaf' and 'pass'
ActionBoil == [name |-> "boil", displayName |-> <<"b", "o", "i", "l">>, emoji |-> "bubbles"]
ActionServe ==
  [name |-> "serve_on_leaf",
   displayName |-> <<"s", "e", "r", "v", "e", " ", "o", "n", " ", "l", "e", "a", "f">>,
   emoji |-> "plate"]
ActionPass == [name |-> "pass", displayName |-> <<"p", "a", "s", "s">>, emoji |-> "flag"]
COOKING_ACTIONS == <<ActionBoil, ActionServe, ActionPass>>

NameUradDal == <<"u", "r", "a", "d", " ", "d", "a", "l">>
NameSalt == <<"s", "a", "l", "t">>
STARTING_INGREDIENTS ==
  <<[name |-> NameUradDal, emoji |-> "white"], [name |-> NameSalt, emoji |-> "shaker"]>>

EXAMPLE_ORDERS ==
  <<[id |-> <<"order", 1>>, name |-> "Filter Coffee", emoji |-> "coffee",
     difficulty |-> "easy", status |-> "not_started", servedDish |-> Undefined]>>

Vanished == <<"V", "a", "n", "i", "s", "h", "e", "d">>
DefaultDish == <<"d", "i", "s", "h">>
EdItems == <<"e", "d", " ", "i", "t", "e", "m", "s">>
DefaultServedEmoji == "check"
\* result.confidence > 0.7, confidence counted in hundredths
ConfidenceThreshold == 70

\* --------------------------------------------------------------------------
\* Inputs from outside: the completion service, the planner, the user
\* --------------------------------------------------------------------------
NameVada == <<"V", "a", "d", "a">>
NameVaDa == <<"v", "a", "-", "d", "a">>
NameSALT == <<"S", "A", "L", "T">>
NameUradDalReq == <<"U", "r", "a", "d", "-", "D", "a", "l">>
NameIce == <<"i", "c", "e">>

\* what generateContent gives back to executeCombination
CombinationResponses ==
  { [kind |-> "error", result_name |-> Undefined, emoji |-> "#undefined"],
    [kind |-> "badjson", result_name |-> Undefined, emoji |-> "#undefined"],
    [kind |-> "notext", result_name |-> Undefined, emoji |-> "#undefined"],
    [kind |-> "json", result_name |-> Undefined, emoji |-> "donut"],
    [kind |-> "json", result_name |-> NameVada, emoji |-> "#undefined"],
    [kind |-> "json", result_name |-> NameVada, emoji |-> "donut"],
    [kind |-> "json", result_name |-> NameVaDa, emoji |-> "ring"],
    [kind |-> "json", result_name |-> NameSALT, emoji |-> "crystal"] }

\* executeCombinationRef.current is null: no resolver is wired
NotWired == [kind |-> "unwired", result_name |-> Undefined, emoji |-> "#undefined"]

\* what the dispatcher's await ends with: a response of the completion
\* service to the wired resolver, or nothing to await
ResolverOutcomes == CombinationResponses \cup {NotWired}

\* what generateContent gives back to the verification loop; matches is
\* "undefined" when the JSON lacks the field ('{}' included)
VerificationResponses ==
  { [kind |-> "error", matches |-> "undefined", confidence |-> 0],
    [kind |-> "badjson", matches |-> "undefined", confidence |-> 0],
    [kind |-> "notext", matches |-> "undefined", confidence |-> 0],
    [kind |-> "json", matches |-> "true", confidence |-> 90],
    [kind |-> "json", matches |-> "true", confidence |-> ConfidenceThreshold],
    [kind |-> "json", matches |-> "false", confidence |-> 90] }

\* tool calls of the planning agent: fc.name and fc.args
FunctionCalls ==
  { [name |-> "serve_on_leaf", ingredients |-> NoIngredients, dish |-> NameVada],
    [name |-> "serve_on_leaf", ingredients |-> NoIngredients, dish |-> Undefined],
    [name |-> "pass", ingredients |-> NoIngredients, dish |-> Undefined],
    [name |-> "boil", ingredients |-> <<NameUradDalReq>>, dish |-> Undefined],
    [name |-> "boil", ingredients |-> <<NameSalt, NameSALT>>, dish |-> Undefined],
    [name |-> "boil", ingredients |-> <<NameIce>>, dish |-> Undefined],
    [name |-> "boil", ingredients |-> <<NameIce, NameSALT, NameUradDalReq, NameSalt>>,
     dish |-> Undefined],
    [name |-> "boil", ingredients |-> <<>>, dish |-> Undefined],
    [name |-> "boil", ingredients |-> NoIngredients, dish |-> Undefined],
    [name |-> "fly", ingredients |-> <<NameSalt>>, dish |-> Undefined] }

\* narration texts of the planner
AgentTexts == {Text("tip", Undefined, "")}
\* names typed into the add-order card
CustomOrderNames == {"Masala Dosa"}

\* --------------------------------------------------------------------------
\* State
\* --------------------------------------------------------------------------
VARIABLES
  inventory,              \* useState<Ingredient[]>, App.tsx:1064
  selectedIngredients,    \* useState<Set<string>>, in insertion order, App.tsx:1065
  timeline,               \* useState<TimelineEntry[]>, App.tsx:1066
  activeAction,           \* useState<string | null>, App.tsx:1067
  orders,                 \* useState<Order[]>, App.tsx:1070
  isCooking,              \* App.tsx:1078
  pendingText,            \* pendingTextRef.current, App.tsx:848
  now,                    \* Date.now()
  agent,                  \* where handleApprovedFunctionCalls stands
  finallyPending,         \* the finally block of a regular call has yet to run
  responseCount,          \* functionResponses sent for the call in hand
  manualCalls,            \* executeAction instances awaiting executeCombination
  verifs,                 \* verifyServedDish instances awaiting generateContent
  servedCount,            \* dishes served so far (history)
  crashed,                \* a state updater threw while rendering
  last                    \* the handler step that led here and the functionResponse
                          \* it handed to sendMessage (history)

vars ==
  <<inventory, selectedIngredients, timeline, activeAction, orders, isCooking, pendingText,
    now, agent, finallyPending, responseCount, manualCalls, verifs, servedCount, crashed,
    last>>

NoId == <<"", 0>>
NoResponse == [name |-> "", success |-> FALSE, result |-> Undefined, emoji |-> "", error |-> ""]
AgentIdle == [pc |-> "idle", name |-> "", id |-> NoId]
\* where no tool call is being handled
NoCall == [name |-> "", ingredients |-> NoIngredients, dish |-> Undefined]
\* a step of handleApprovedFunctionCalls on the tool call fc
\* where no answer of the completion service is being handled
NoAnswer == [kind |-> "", matches |-> "undefined", confidence |-> 0]
\* where no response to executeCombination is being handled
NoCombination == [kind |-> "", result_name |-> Undefined, emoji |-> "#undefined"]
Step(fc, resp, comb, op, arg, pre, response) ==
  [op |-> op, arg |-> arg, pre |-> pre, response |-> response, call |-> fc, answer |-> resp,
   combination |-> comb]
\* a step of handleApprovedFunctionCalls on the tool call fc
Called(fc, op, arg, pre, response) == Step(fc, NoAnswer, NoCombination, op, arg, pre, response)
\* a step of the verification loop on the answer resp
Answered(resp, op, arg, pre, response) == Step(NoCall, resp, NoCombination, op, arg, pre, response)
\* a step that follows executeCombination, which was given comb by the service
Combined(comb, op, arg, pre, response) == Step(NoCall, NoAnswer, comb, op, arg, pre, response)
Responded(op, arg, pre, response) == Called(NoCall, op, arg, pre, response)
Did(op, arg, pre) == Responded(op, arg, pre, NoResponse)

Init ==
  /\ inventory = STARTING_INGREDIENTS
  /\ selectedIngredients = <<>>
  /\ timeline = <<>>
  /\ activeAction = "null"
  /\ orders = EXAMPLE_ORDERS
  /\ isCooking = FALSE
  /\ pendingText = NoText
  /\ now = Len(EXAMPLE_ORDERS) + 1
  /\ agent = AgentIdle
  /\ finallyPending = FALSE
  /\ responseCount = 0
  /\ manualCalls = <<>>
  /\ verifs = <<>>
  /\ servedCount = 0
  /\ crashed = FALSE
  /\ last = Did("init", NoId, "")


\* --------------------------------------------------------------------------
\* The order ledger
\* --------------------------------------------------------------------------
\* a filter that lets every order through
InProgressUnfiltered(ords) == ords

\* orders.filter(o => o.status === 'in_progress')
InProgress(ords) == SelectSeq(ords, LAMBDA o : o.status = "in_progress")

\* setOrders(prev => prev.map(...)) of handlePickUp
handlePickUp(ords, orderId) ==
  [i \in 1..Len(ords) |-> IF ords[i].id = orderId THEN [ords[i] EXCEPT !.status = "in_progress"] ELSE ords[i]]

\* a batch start that does not compare ids
startBatchEvery(ords, ids) ==
  [i \in 1..Len(ords) |->
     IF ords[i].status = "not_started" THEN [ords[i] EXCEPT !.status = "in_progress"] ELSE ords[i]]

\* setOrders(prev => prev.map(...)) of handleCookBatchWithGemini
startBatch(ords, ids) ==
  [i \in 1..Len(ords) |-> IF ords[i].id \in ids THEN [ords[i] EXCEPT !.status = "in_progress"] ELSE ords[i]]

\* an abandon that also fails the orders nobody has picked up
handlePassNotStarted(ords) ==
  [i \in 1..Len(ords) |->
    IF ords[i].status \in {"in_progress", "not_started"}
    THEN [ords[i] EXCEPT !.status = "failed", !.servedDish = Vanished]
    ELSE ords[i]]

\* setOrders(prev => prev.map(...)) of handlePass
handlePass(ords) ==
  [i \in 1..Len(ords) |->
    IF ords[i].status = "in_progress"
    THEN [ords[i] EXCEPT !.status = "failed", !.servedDish = Vanished]
    ELSE ords[i]]

\* a completion that leaves out the comparison of ids
completeOrderEvery(ords, orderId, servedEmoji, servedDishName) ==
  [i \in 1..Len(ords) |->
    IF ords[i].status = "in_progress"
    THEN [ords[i] EXCEPT !.status = "completed", !.emoji = servedEmoji, !.servedDish = servedDishName]
    ELSE ords[i]]

\* setOrders(prev => prev.map(...)) of the verification loop
completeOrder(ords, orderId, servedEmoji, servedDishName) ==
  [i \in 1..Len(ords) |->
    IF ords[i].id = orderId
    THEN [ords[i] EXCEPT !.status = "completed", !.emoji = servedEmoji, !.servedDish = servedDishName]
    ELSE ords[i]]

\* a filter that drops the completed orders only
clearSummaryCompleted(ords) == SelectSeq(ords, LAMBDA o : o.status # "completed")

\* setOrders(prev => prev.filter(...)) of handlePerformClearSummary
clearSummary(ords) == SelectSeq(ords, LAMBDA o : o.status # "completed" /\ o.status # "failed")

\* --------------------------------------------------------------------------
\* What the rendered page lets the user trigger
\* --------------------------------------------------------------------------
hasInProgressOrder == \E i \in 1..Len(orders) : orders[i].status = "in_progress"
hasCurrentOrder == hasInProgressOrder
currentOrder == InProgress(orders)[1]
completedOrders == SelectSeq(orders, LAMBDA o : o.status \in {"completed", "failed"})

\* selectionMode and batchSelectedOrderIds are not kept as state: a click on an
\* order button happens with selectionMode false, a batch request with
\* selectionMode true and a set of ids each toggled in while selectable.
\* a card that is never disabled
OrderCardDisabledNever(o, selectionMode) == FALSE

\* isDisabled of an OrderCard
OrderCardDisabled(o, selectionMode) ==
  ~selectionMode /\ hasInProgressOrder /\ o.status = "not_started"
\* buttons rendered whatever the status of the order
OrderButtonsRenderedAnyStatus(o, selectionMode) == ~selectionMode
\* the Manual and VJOSS buttons of an OrderCard are rendered
OrderButtonsRendered(o, selectionMode) == ~selectionMode /\ o.status = "not_started"
\* a card that can be selected whatever the status of its order
OrderSelectableAnyStatus(o, selectionMode) ==
  selectionMode /\ ~OrderCardDisabled(o, selectionMode)
\* the OrderCard's onClick toggles the selection
OrderSelectable(o, selectionMode) ==
  selectionMode /\ o.status = "not_started" /\ ~OrderCardDisabled(o, selectionMode)

hasSelection == Len(selectedIngredients) > 0
\* isDisabled of an ActionTile
ActionTileDisabled(action) ==
  IF isCooking
  THEN FALSE
  ELSE \/ ~hasSelection
       \/ activeAction # "null"
       \/ (action.name = "serve_on_leaf" /\ Len(selectedIngredients) # 1)

\* --------------------------------------------------------------------------
\* Timeline entries
\* --------------------------------------------------------------------------
Entry(id, text, action, ingredients, result) ==
  [id |-> id, text |-> text, action |-> action, ingredients |-> ingredients, result |-> result]

\* the entries the manual path and the verification loop write with type: 'text'
TextEntry(prefix, text) == Entry(<<prefix, now>>, text, "", <<>>, NullIngredient)
\* the entries the agent path writes with id, timestamp and text alone
Narration(prefix, text) == Entry(<<prefix, now>>, text, NoAction, NoIngredients, UndefinedIngredient)

\* a narration appended twice
narrateTwice(tl, entry) == Append(Append(tl, entry), entry)

\* a narration that is built and never appended
narrateLost(tl, entry) == tl

\* setTimeline(prev => [...prev, entry]) of the verification matcher
narrate(tl, entry) == Append(tl, entry)

\* an update that is dropped once an abandon has been narrated
setResultUnlessAbandoned(tl, id, result) ==
  IF \E k \in 1..Len(tl) : tl[k].id[1] = "pass"
  THEN tl
  ELSE [i \in 1..Len(tl) |-> IF tl[i].id = id THEN [tl[i] EXCEPT !.result = result] ELSE tl[i]]

\* an update that takes the entry out and appends its resolved copy
setResultReappended(tl, id, result) ==
  SelectSeq(tl, LAMBDA e : e.id # id)
    \o [i \in 1..Len(SelectSeq(tl, LAMBDA e : e.id = id)) |->
         [SelectSeq(tl, LAMBDA e : e.id = id)[i] EXCEPT !.result = result]]

\* a result written to every pending entry, the id not compared
setResultEvery(tl, id, result) ==
  [i \in 1..Len(tl) |->
     IF tl[i].result = NullIngredient /\ tl[i].action \notin {"", NoAction}
     THEN [tl[i] EXCEPT !.result = result]
     ELSE tl[i]]

\* setTimeline(prev => prev.map(entry => entry.id === id ? {...entry, result} : entry))
setResult(tl, id, result) ==
  [i \in 1..Len(tl) |-> IF tl[i].id = id THEN [tl[i] EXCEPT !.result = result] ELSE tl[i]]

\* MaxTimeline bounds the entries that handlers append when they are triggered;
\* the narration that ends a verification already under way is always appended
Outcomes(tl) ==
  Cardinality({i \in 1..Len(tl) : tl[i].id[1] \in {"verify-noorder", "verify", "verify-fail"}})
HasRoom(n) == Len(timeline) - Outcomes(timeline) + n <= MaxTimeline

\* --------------------------------------------------------------------------
\* Combination resolver
\* --------------------------------------------------------------------------
\* executeCombination: what it returns for a response of the completion service
executeCombination(resp) ==
  IF resp.kind \in {"error", "badjson"}
  THEN NullIngredient
  ELSE IF resp.kind = "notext"
       THEN UndefinedIngredient
       ELSE [name |-> resp.result_name, emoji |-> resp.emoji]

\* an updater that lets the newcomer take the place of the entry of its key
insertIngredientReplacing(inv, ing) ==
  IF \E i \in 1..Len(inv) : normalizeIngredientName(inv[i].name) = normalizeIngredientName(ing.name)
  THEN [i \in 1..Len(inv) |->
          IF normalizeIngredientName(inv[i].name) = normalizeIngredientName(ing.name)
          THEN ing
          ELSE inv[i]]
  ELSE <<ing>> \o inv

\* an updater that returns prev on both branches
insertIngredientLost(inv, ing) == inv

\* setInventory(prev => isDuplicateIngredient(name, prev) ? prev : [new, ...prev])
insertIngredient(inv, ing) ==
  IF isDuplicateIngredient(ing.name, inv) THEN inv ELSE <<ing>> \o inv

RemoveAt(s, i) == SubSeq(s, 1, i - 1) \o SubSeq(s, i + 1, Len(s))


\* --------------------------------------------------------------------------
\* Verification matcher
\* --------------------------------------------------------------------------
\* a response that does not look at the outcome
ServeResponseAlwaysSuccess(verificationSuccess, dishName) ==
  [name |-> "serve_on_leaf", success |-> TRUE, result |-> dishName, emoji |-> "", error |-> ""]

\* the functionResponse of a serve_on_leaf call
ServeResponse(verificationSuccess, dishName) ==
  IF verificationSuccess
  THEN [name |-> "serve_on_leaf", success |-> TRUE, result |-> dishName, emoji |-> "",
        error |-> ""]
  ELSE [name |-> "serve_on_leaf", success |-> FALSE, result |-> dishName, emoji |-> "",
        error |-> "is not what was ordered. Try again!"]

\* a test that lets the threshold itself through
AcceptsAtThreshold(resp) ==
  resp.kind = "json" /\ resp.matches = "true" /\ resp.confidence >= ConfidenceThreshold

\* result.matches && result.confidence > 0.7
Accepts(resp) ==
  resp.kind = "json" /\ resp.matches = "true" /\ resp.confidence > ConfidenceThreshold

\* a serve path that never looks at the orders that remain
AfterVerificationKeepsCooking(caller, dishName, result, ords, sent) ==
  /\ isCooking' = isCooking
  /\ IF caller = "agent"
     THEN /\ agent' = AgentIdle
          /\ responseCount' = sent + 1
     ELSE UNCHANGED <<agent, responseCount>>

\* a serve path that returns without sendMessage
AfterVerificationNoReply(caller, dishName, result, ords, sent) ==
  /\ isCooking' = IF Len(InProgress(ords)) = 0 THEN FALSE ELSE isCooking
  /\ IF caller = "agent"
     THEN /\ agent' = AgentIdle
          /\ responseCount' = sent
     ELSE UNCHANGED <<agent, responseCount>>

\* handleVerifyServedDish after the verifier returned `result`, and, for a
\* serve_on_leaf tool call, the rest of handleApprovedFunctionCalls
AfterVerification(caller, dishName, result, ords, sent) ==
  /\ isCooking' = IF Len(InProgress(ords)) = 0 THEN FALSE ELSE isCooking
  /\ IF caller = "agent"
     THEN /\ agent' = AgentIdle
          /\ responseCount' = sent + 1
     ELSE UNCHANGED <<agent, responseCount>>

\* a response that reports the opposite of what the verifier returned
ResponseAfterInverted(caller, dishName, result) ==
  IF caller = "agent" THEN ServeResponse(~result, dishName) ELSE NoResponse

\* what the step hands to sendMessage when the verifier returned `result`
ResponseAfter(caller, dishName, result) ==
  IF caller = "agent" THEN ServeResponse(result, dishName) ELSE NoResponse

\* verifyServedDishRef.current up to its first await; tl is the timeline with
\* the caller's own entry already appended
StartVerification(caller, dishName, tl) ==
  LET inProgressOrders == InProgress(orders) IN
  IF Len(inProgressOrders) = 0
  THEN /\ timeline' = narrate(tl, TextEntry("verify-noorder", Text("Served", dishName, "")))
       /\ AfterVerification(caller, dishName, TRUE, orders, 0)
       /\ UNCHANGED <<orders, verifs>>
  ELSE /\ Len(verifs) < MaxVerify
       /\ timeline' = tl
       /\ verifs' = Append(verifs, [caller |-> caller, dish |-> dishName,
                                    snap |-> [i \in 1..Len(inProgressOrders) |->
                                               [id |-> inProgressOrders[i].id,
                                                name |-> inProgressOrders[i].name]],
                                    idx |-> 1])
       /\ IF caller = "agent"
          THEN /\ agent' = [pc |-> "verifying", name |-> "serve_on_leaf", id |-> NoId]
               /\ responseCount' = 0
          ELSE UNCHANGED <<agent, responseCount>>
       /\ UNCHANGED <<orders, isCooking>>

\* a loop that a thrown error leaves, the try block around the for
MoreOrdersUnlessThrown(v, resp) == resp.kind \notin {"error", "badjson"} /\ v.idx < Len(v.snap)

\* the for loop has a further order after a turn that did not return; the
\* try block is inside the loop, so a thrown error ends only that turn
MoreOrders(v, resp) == v.idx < Len(v.snap)

\* one turn of the for loop: generateContent returned resp for the order at idx
VerifyAnswer(i, resp) ==
  /\ ~crashed
  /\ i \in 1..Len(verifs)
  /\ LET v == verifs[i]
         order == v.snap[v.idx]
     IN
     IF Accepts(resp)
     THEN LET servedIngredient == findIngredientInInventory(v.dish, inventory)
              servedEmoji == IF servedIngredient = NullIngredient
                             THEN DefaultServedEmoji
                             ELSE servedIngredient.emoji
          IN
          /\ orders' = completeOrder(orders, order.id, servedEmoji, v.dish)
          /\ timeline' = narrate(timeline,
               TextEntry("verify", Text("is a perfect match for", v.dish, order.name)))
          /\ verifs' = RemoveAt(verifs, i)
          /\ AfterVerification(v.caller, v.dish, TRUE, orders', responseCount)
          /\ now' = now + 1
          /\ last' = Answered(resp, "verify-match", order.id, v.dish,
                                ResponseAfter(v.caller, v.dish, TRUE))
     ELSE IF MoreOrders(v, resp)
          THEN /\ verifs' = [verifs EXCEPT ![i].idx = v.idx + 1]
               /\ last' = Answered(resp, "verify-next", order.id, v.dish, NoResponse)
               /\ UNCHANGED <<orders, timeline, isCooking, agent, responseCount, now>>
          ELSE /\ timeline' = narrate(timeline,
                    TextEntry("verify-fail", Text("not part of the current feast", Undefined, "")))
               /\ verifs' = RemoveAt(verifs, i)
               /\ AfterVerification(v.caller, v.dish, FALSE, orders, responseCount)
               /\ now' = now + 1
               /\ last' = Answered(resp, "verify-fail", order.id, v.dish,
                                     ResponseAfter(v.caller, v.dish, FALSE))
               /\ UNCHANGED orders
  /\ UNCHANGED <<inventory, selectedIngredients, activeAction, pendingText, finallyPending, manualCalls, servedCount, crashed>>

\* --------------------------------------------------------------------------
\* Manual path (CombinationAgent)
\* --------------------------------------------------------------------------
InventoryNames == {inventory[i].name : i \in 1..Len(inventory)}

toggleIngredient(name) ==
  /\ ~crashed
  /\ hasCurrentOrder                       \* IngredientTile isDisabled = !currentOrder
  /\ name \in InventoryNames
  /\ IF name \in Range(selectedIngredients)
     THEN selectedIngredients' = SelectSeq(selectedIngredients, LAMBDA n : n # name)
     ELSE /\ Len(selectedIngredients) < MaxSelected
          /\ selectedIngredients' = Append(selectedIngredients, name)
  /\ last' = Did("toggleIngredient", NoId, "")
  /\ UNCHANGED <<inventory, timeline, activeAction, orders, isCooking, pendingText, now, agent, finallyPending, responseCount, manualCalls, verifs, servedCount, crashed>>

\* executeAction with the serve_on_leaf tile
executeActionServe ==
  /\ ~crashed
  /\ ~ActionTileDisabled(ActionServe)
  /\ Len(selectedIngredients) # 0          \* if (selectedIngredients.size === 0) return
  /\ LET dishName == selectedIngredients[1] IN
     /\ HasRoom(1)
     /\ StartVerification("manual", dishName,
          Append(timeline, TextEntry("serve", Text("Served on Banana Leaf", dishName, ""))))
     /\ last' = Did("executeAction-serve", NoId, IF hasInProgressOrder THEN "orders" ELSE "noorder")
  /\ selectedIngredients' = <<>>
  /\ servedCount' = servedCount + 1
  /\ now' = now + 1
  /\ UNCHANGED <<inventory, activeAction, pendingText, finallyPending, manualCalls, crashed>>

\* executeAction with any other tile, up to await executeCombination
executeAction(action) ==
  /\ ~crashed
  /\ action.name # "serve_on_leaf"
  /\ ~ActionTileDisabled(action)
  /\ Len(selectedIngredients) # 0          \* if (selectedIngredients.size === 0) return
  /\ HasRoom(1)
  /\ Len(manualCalls) < MaxManualCalls
  /\ LET timelineId == <<"", now>> IN
     /\ timeline' = Append(timeline,
          Entry(timelineId, NoText, action.name, selectedIngredients, NullIngredient))
     /\ manualCalls' = Append(manualCalls, [id |-> timelineId, action |-> action.name])
     /\ last' = Did("executeAction", timelineId, action.name)
  /\ selectedIngredients' = <<>>
  /\ activeAction' = action.name
  /\ now' = now + 1
  /\ UNCHANGED <<inventory, orders, isCooking, pendingText, agent, finallyPending, responseCount, verifs, servedCount, crashed>>

\* executeAction after await executeCombination
executeActionReturns(i, resp) ==
  /\ ~crashed
  /\ i \in 1..Len(manualCalls)
  /\ LET timelineId == manualCalls[i].id
         newIngredient == executeCombination(resp)
     IN
     IF newIngredient # NullIngredient /\ newIngredient.name = Undefined
     THEN \* isDuplicateIngredient(undefined, prev) throws inside the updater
          /\ crashed' = TRUE
          /\ last' = Combined(resp, "executeAction-crash", timelineId, newIngredient, NoResponse)
          /\ UNCHANGED <<inventory, timeline, activeAction, manualCalls>>
     ELSE /\ IF newIngredient # NullIngredient
             THEN /\ timeline' = setResult(timeline, timelineId, newIngredient)
                  /\ inventory' = insertIngredient(inventory, newIngredient)
             ELSE /\ timeline' = setResult(timeline, timelineId, ErrorIngredient)
                  /\ inventory' = inventory
          /\ activeAction' = "null"
          /\ manualCalls' = RemoveAt(manualCalls, i)
          /\ last' = Combined(resp, "executeAction-returns", timelineId, newIngredient, NoResponse)
          /\ UNCHANGED crashed
  /\ UNCHANGED <<selectedIngredients, orders, isCooking, pendingText, now, agent, finallyPending, responseCount, verifs, servedCount>>


\* --------------------------------------------------------------------------
\* Planning agent path (CookingAgent)
\* --------------------------------------------------------------------------
\* handleLog: a received message with text
handleLog(text, hasFunctionCalls) ==
  /\ ~crashed
  /\ agent.pc = "idle"
  /\ IF hasFunctionCalls
     THEN /\ pendingText' = text
          /\ UNCHANGED <<timeline, now>>
     ELSE /\ pendingText' = pendingText
          /\ IF \E i \in 1..Len(timeline) :
                  timeline[i].text = text /\ timeline[i].action \in {NoAction, ""}
             THEN UNCHANGED <<timeline, now>>
             ELSE /\ HasRoom(1)
                  /\ timeline' = Append(timeline, Narration("text", text))
                  /\ now' = now + 1
  /\ last' = Did("handleLog", NoId, IF hasFunctionCalls THEN "buffered" ELSE "standalone")
  /\ UNCHANGED <<inventory, selectedIngredients, activeAction, orders, isCooking, agent, finallyPending, responseCount, manualCalls, verifs, servedCount, crashed>>

FailureResponse(actionName, error) ==
  [name |-> actionName, success |-> FALSE, result |-> Undefined, emoji |-> "", error |-> error]

\* a lookup that settles for the first action of the catalogue
FindActionFirst(actionName) == COOKING_ACTIONS[1]

\* COOKING_ACTIONS.find(a => a.name === actionName)
FindAction(actionName) ==
  IF \E i \in 1..Len(COOKING_ACTIONS) : COOKING_ACTIONS[i].name = actionName
  THEN COOKING_ACTIONS[CHOOSE i \in 1..Len(COOKING_ACTIONS) : COOKING_ACTIONS[i].name = actionName]
  ELSE [name |-> "#undefined", displayName |-> Undefined, emoji |-> "#undefined"]

\* const requestedIngredients = args.ingredients || []
RequestedIngredients(fc) == IF fc.ingredients = NoIngredients THEN <<>> ELSE fc.ingredients

RECURSIVE ValidateFrom(_, _, _, _)
\* the for loop over requestedIngredients, from index k on
ValidateFrom(requested, inv, k, validated) ==
  IF k > Len(requested)
  THEN validated
  ELSE LET found == findIngredientInInventory(requested[k], inv) IN
       IF /\ found # NullIngredient
          /\ ~\E j \in 1..Len(validated) :
                normalizeIngredientName(validated[j]) = normalizeIngredientName(found.name)
       THEN ValidateFrom(requested, inv, k + 1, Append(validated, found.name))
       ELSE ValidateFrom(requested, inv, k + 1, validated)

\* a loop that pushes every name it finds, pushed before or not
validatedIngredientsWithRepeats(requested, inv) ==
  LET found == SelectSeq([i \in 1..Len(requested) |-> findIngredientInInventory(requested[i], inv)],
                         LAMBDA f : f # NullIngredient)
  IN [i \in 1..Len(found) |-> found[i].name]

\* a dispatcher that records the names as the planner wrote them
validatedIngredientsAsRequested(requested, inv) == requested

validatedIngredientsOf(requested, inv) == ValidateFrom(requested, inv, 1, <<>>)

\* a dispatcher without the check
MissingFromPantryNever(validated, requested) == FALSE

\* validatedIngredients.length === 0 && requestedIngredients.length > 0
MissingFromPantry(validated, requested) == Len(validated) = 0 /\ Len(requested) > 0

\* handleApprovedFunctionCalls, actionName === 'serve_on_leaf'
toolServe(fc) ==
  /\ ~crashed
  /\ agent.pc = "idle"
  /\ fc.name = "serve_on_leaf"
  /\ LET dishName == IF fc.dish = Undefined THEN DefaultDish ELSE fc.dish IN
     /\ HasRoom(1)
     /\ StartVerification("agent", dishName,
          Append(timeline, Narration("serve", Text("Serving on Banana Leaf", dishName, ""))))
     /\ last' = IF hasInProgressOrder
                THEN Called(fc, "tool-serve", NoId, "orders", NoResponse)
                ELSE Called(fc, "tool-serve", NoId, "noorder", ServeResponse(TRUE, dishName))
  /\ servedCount' = servedCount + 1
  /\ now' = now + 1
  /\ UNCHANGED <<inventory, selectedIngredients, activeAction, pendingText, finallyPending, manualCalls, crashed>>


\* handleApprovedFunctionCalls, actionName === 'pass'
toolPass(fc) ==
  /\ ~crashed
  /\ agent.pc = "idle"
  /\ fc.name = "pass"
  /\ HasRoom(1)
  /\ orders' = handlePass(orders)
  /\ isCooking' = FALSE
  /\ timeline' = Append(timeline, Narration("pass", Text("Gave up on the order", Undefined, "")))
  /\ responseCount' = 1
  /\ now' = now + 1
  /\ last' = Called(fc, "tool-pass", NoId, Len(InProgress(orders)),
       [name |-> "pass", success |-> TRUE, result |-> Undefined, emoji |-> "", error |-> ""])
  /\ UNCHANGED <<inventory, selectedIngredients, activeAction, pendingText, agent, finallyPending, manualCalls, verifs, servedCount, crashed>>

\* handleApprovedFunctionCalls, a name COOKING_ACTIONS does not hold
toolUnknown(fc) ==
  /\ ~crashed
  /\ agent.pc = "idle"
  /\ fc.name \notin {"serve_on_leaf", "pass"}
  /\ FindAction(fc.name).name = "#undefined"
  /\ responseCount' = 1
  /\ last' = Called(fc, "tool-unknown", NoId, fc.name,
                        FailureResponse(fc.name, "Unknown action"))
  /\ UNCHANGED <<inventory, selectedIngredients, timeline, activeAction, orders, isCooking, pendingText, now, agent, finallyPending, manualCalls, verifs, servedCount, crashed>>

\* handleApprovedFunctionCalls, a regular action: validation, then the
\* loading entry, up to await executeCombinationRef.current
toolAction(fc) ==
  /\ ~crashed
  /\ agent.pc = "idle"
  /\ fc.name \notin {"serve_on_leaf", "pass"}
  /\ FindAction(fc.name).name # "#undefined"
  /\ LET requestedIngredients == RequestedIngredients(fc)
         validatedIngredients == validatedIngredientsOf(requestedIngredients, inventory)
         timelineId == <<"cooking", now>>
     IN
     IF MissingFromPantry(validatedIngredients, requestedIngredients)
     THEN /\ responseCount' = 1
          /\ last' = Called(fc, "tool-missing", NoId, requestedIngredients,
                                FailureResponse(fc.name, "Ingredients missing from pantry."))
          /\ UNCHANGED <<timeline, activeAction, pendingText, now, agent>>
     ELSE /\ HasRoom(1)
          /\ pendingText' = NoText
          /\ timeline' = Append(timeline,
               Entry(timelineId, pendingText, fc.name, validatedIngredients, NullIngredient))
          /\ activeAction' = fc.name
          /\ agent' = [pc |-> "combining", name |-> fc.name, id |-> timelineId]
          /\ responseCount' = 0
          /\ now' = now + 1
          /\ last' = Called(fc, "tool-action", timelineId, requestedIngredients, NoResponse)
  /\ UNCHANGED <<inventory, selectedIngredients, orders, isCooking, finallyPending, manualCalls, verifs, servedCount, crashed>>

\* { success: true, result: newIngredient.name, emoji: newIngredient.emoji }
SuccessResponse(actionName, newIngredient) ==
  [name |-> actionName, success |-> TRUE, result |-> newIngredient.name,
   emoji |-> newIngredient.emoji, error |-> ""]

\* a fallback that carries the display name alone
FallbackIngredientPlain(action) == [name |-> action.displayName, emoji |-> action.emoji]

\* { name: `${action.displayName}ed items`, emoji: action.emoji }
FallbackIngredient(action) == [name |-> action.displayName \o EdItems, emoji |-> action.emoji]

\* if (executeCombinationRef.current) newIngredient = await ...current(action, validated)
ViaRef(resp) == IF resp.kind = "unwired" THEN NullIngredient ELSE executeCombination(resp)

\* a dispatcher without the substitution
OrFallbackNone(returned, action) == returned

\* if (!newIngredient) newIngredient = fallback
OrFallback(returned, action) ==
  IF returned = NullIngredient THEN FallbackIngredient(action) ELSE returned

\* handleApprovedFunctionCalls after await executeCombinationRef.current, up
\* to await sendMessage
toolActionReturns(resp) ==
  /\ ~crashed
  /\ agent.pc = "combining"
  /\ ~finallyPending
  /\ LET action == FindAction(agent.name)
         returned == ViaRef(resp)
         newIngredient == OrFallback(returned, action)
     IN
     /\ responseCount' = responseCount + 1
     /\ IF newIngredient.name = Undefined
        THEN \* isDuplicateIngredient(undefined, prev) throws inside the updater
             /\ crashed' = TRUE
             /\ last' = Combined(resp, "tool-crash", agent.id, returned,
                                   SuccessResponse(agent.name, newIngredient))
             /\ UNCHANGED <<timeline, inventory, agent, finallyPending>>
        ELSE /\ timeline' = setResult(timeline, agent.id, newIngredient)
             /\ inventory' = insertIngredient(inventory, newIngredient)
             /\ agent' = AgentIdle
             /\ finallyPending' = TRUE
             /\ last' = Combined(resp, "tool-returns", agent.id, returned,
                                   SuccessResponse(agent.name, newIngredient))
             /\ UNCHANGED crashed
  /\ UNCHANGED <<selectedIngredients, activeAction, orders, isCooking, pendingText, now, manualCalls, verifs, servedCount>>

\* the finally block, once sendMessage has resolved
toolActionFinally ==
  /\ ~crashed
  /\ finallyPending
  /\ activeAction' = "null"
  /\ finallyPending' = FALSE
  /\ last' = Did("tool-finally", NoId, "")
  /\ UNCHANGED <<inventory, selectedIngredients, timeline, orders, isCooking, pendingText, now, agent, responseCount, manualCalls, verifs, servedCount, crashed>>


\* --------------------------------------------------------------------------
\* Order triggers (KitchenAppContainer, OrderCard)
\* --------------------------------------------------------------------------
OrderIds == {orders[i].id : i \in 1..Len(orders)}
OrderById(id) == orders[CHOOSE i \in 1..Len(orders) : orders[i].id = id]

\* the Manual button of an OrderCard: onPickUp(order.id)
pickUpButton(id) ==
  /\ ~crashed
  /\ id \in OrderIds
  /\ OrderButtonsRendered(OrderById(id), FALSE)
  /\ ~OrderCardDisabled(OrderById(id), FALSE)
  /\ orders' = handlePickUp(orders, id)
  /\ last' = Did("handlePickUp", id, OrderById(id).status)
  /\ UNCHANGED <<inventory, selectedIngredients, timeline, activeAction, isCooking,
                 pendingText, now, agent, finallyPending, responseCount, manualCalls,
                 verifs, servedCount, crashed>>

\* handleCookWithGemini(order): the ledger it leaves
cookWithGemini(ords, order) ==
  IF order.status = "not_started" THEN handlePickUp(ords, order.id) ELSE ords

\* the VJOSS button of an OrderCard
cookButton(id) ==
  /\ ~crashed
  /\ id \in OrderIds
  /\ OrderButtonsRendered(OrderById(id), FALSE)
  /\ ~OrderCardDisabled(OrderById(id), FALSE)
  /\ orders' = cookWithGemini(orders, OrderById(id))
  /\ isCooking' = TRUE
  /\ last' = Did("handleCookWithGemini", id, OrderById(id).status)
  /\ UNCHANGED <<inventory, selectedIngredients, timeline, activeAction, pendingText, now,
                 agent, finallyPending, responseCount, manualCalls, verifs, servedCount,
                 crashed>>

\* the Head Chef button: currentOrder && onCookWithGemini(currentOrder)
headChefButton ==
  /\ ~crashed
  /\ hasCurrentOrder
  /\ ~isCooking                            \* disabled={!currentOrder || isCooking}
  /\ orders' = cookWithGemini(orders, currentOrder)
  /\ isCooking' = TRUE
  /\ last' = Did("handleCookWithGemini", currentOrder.id, currentOrder.status)
  /\ UNCHANGED <<inventory, selectedIngredients, timeline, activeAction, pendingText, now,
                 agent, finallyPending, responseCount, manualCalls, verifs, servedCount,
                 crashed>>

\* the VJOSS Batch button with the orders whose ids are selected:
\* handleCookBatchWithGemini(orders.filter(o => batchSelectedOrderIds.has(o.id)))
cookBatchButton(batchSelectedOrderIds) ==
  /\ ~crashed
  /\ Cardinality(batchSelectedOrderIds) >= 1
  /\ batchSelectedOrderIds \subseteq OrderIds
  /\ \A id \in batchSelectedOrderIds : OrderSelectable(OrderById(id), TRUE)
  /\ LET selected == SelectSeq(orders, LAMBDA o : o.id \in batchSelectedOrderIds)
     IN orders' = startBatch(orders, {selected[i].id : i \in 1..Len(selected)})
  /\ isCooking' = TRUE
  /\ last' = Did("handleCookBatchWithGemini", NoId, batchSelectedOrderIds)
  /\ UNCHANGED <<inventory, selectedIngredients, timeline, activeAction, pendingText, now,
                 agent, finallyPending, responseCount, manualCalls, verifs, servedCount,
                 crashed>>

\* handleAddOrder(orderName) from the AddOrderCard
handleAddOrder(orderName) ==
  /\ ~crashed
  /\ ~hasInProgressOrder                   \* AddOrderCard isDisabled
  /\ Len(orders) < MaxOrders
  /\ orders' = Append(orders,
       [id |-> <<"order", now>>, name |-> orderName, emoji |-> "scroll",
        difficulty |-> "intermediate", status |-> "not_started", servedDish |-> Undefined])
  /\ now' = now + 1
  /\ last' = Did("handleAddOrder", <<"order", now>>, "")
  /\ UNCHANGED <<inventory, selectedIngredients, timeline, activeAction, isCooking,
                 pendingText, agent, finallyPending, responseCount, manualCalls, verifs,
                 servedCount, crashed>>

\* the Clear Summary button and "Yes, Clear All": handlePerformClearSummary
handlePerformClearSummary ==
  /\ ~crashed
  /\ Len(completedOrders) > 0              \* the summary section is rendered
  /\ orders' = clearSummary(orders)
  /\ last' = Did("handlePerformClearSummary", NoId, "")
  /\ UNCHANGED <<inventory, selectedIngredients, timeline, activeAction, isCooking,
                 pendingText, now, agent, finallyPending, responseCount, manualCalls,
                 verifs, servedCount, crashed>>


\* --------------------------------------------------------------------------
\* Specification
\* --------------------------------------------------------------------------
Next ==
  \/ \E i \in 1..Len(inventory) : toggleIngredient(inventory[i].name)
  \/ executeActionServe
  \/ \E i \in 1..Len(COOKING_ACTIONS) : executeAction(COOKING_ACTIONS[i])
  \/ \E i \in 1..Len(manualCalls), resp \in CombinationResponses : executeActionReturns(i, resp)
  \/ \E text \in AgentTexts, hasFunctionCalls \in BOOLEAN : handleLog(text, hasFunctionCalls)
  \/ \E fc \in FunctionCalls : toolServe(fc)
  \/ \E fc \in FunctionCalls : toolPass(fc)
  \/ \E fc \in FunctionCalls : toolUnknown(fc)
  \/ \E fc \in FunctionCalls : toolAction(fc)
  \/ \E resp \in ResolverOutcomes : toolActionReturns(resp)
  \/ toolActionFinally
  \/ \E i \in 1..Len(verifs), resp \in VerificationResponses : VerifyAnswer(i, resp)
  \/ \E id \in OrderIds : pickUpButton(id)
  \/ \E id \in OrderIds : cookButton(id)
  \/ headChefButton
  \/ \E ids \in SUBSET OrderIds : cookBatchButton(ids)
  \/ \E orderName \in CustomOrderNames : handleAddOrder(orderName)
  \/ handlePerformClearSummary

Spec == Init /\ [][Next]_vars


\* The combination slice: the manual and the agent-dispatched regular actions,
\* with the order triggers that enable the manual path. The planner asks for
\* one resolvable name, for one name the pantry lacks, or for an unknown tool;
\* the user clicks the boil tile.
CookCalls ==
  {fc \in FunctionCalls :
     \/ fc.name = "fly"
     \/ fc.name = "boil" /\ fc.ingredients \in {<<NameUradDalReq>>, <<NameIce>>}}

NextCook ==
  \/ \E i \in 1..Len(inventory) : toggleIngredient(inventory[i].name)
  \/ executeAction(ActionBoil)
  \/ \E i \in 1..Len(manualCalls), resp \in CombinationResponses : executeActionReturns(i, resp)
  \/ \E text \in AgentTexts, hasFunctionCalls \in BOOLEAN : handleLog(text, hasFunctionCalls)
  \/ \E fc \in CookCalls : toolUnknown(fc)
  \/ \E fc \in CookCalls : toolAction(fc)
  \/ \E resp \in ResolverOutcomes : toolActionReturns(resp)
  \/ toolActionFinally
  \/ \E id \in OrderIds : pickUpButton(id)
  \/ \E id \in OrderIds : cookButton(id)

SpecCook == Init /\ [][NextCook]_vars

\* The serving slice: the order ledger, serve and abandon, verification.
NextServe ==
  \/ \E i \in 1..Len(inventory) : toggleIngredient(inventory[i].name)
  \/ executeActionServe
  \/ \E fc \in FunctionCalls : toolServe(fc)
  \/ \E fc \in FunctionCalls : toolPass(fc)
  \/ \E i \in 1..Len(verifs), resp \in VerificationResponses : VerifyAnswer(i, resp)
  \/ \E id \in OrderIds : pickUpButton(id)
  \/ \E id \in OrderIds : cookButton(id)
  \/ headChefButton
  \/ \E ids \in SUBSET OrderIds : cookBatchButton(ids)
  \/ \E orderName \in CustomOrderNames : handleAddOrder(orderName)
  \/ handlePerformClearSummary

SpecServe == Init /\ [][NextServe]_vars

\* The tool-call slice: every tool call of the planner, well-formed or not,
\* with the AI cook request that puts an order in_progress; no manual action.
NextTools ==
  \/ \E text \in AgentTexts, hasFunctionCalls \in BOOLEAN : handleLog(text, hasFunctionCalls)
  \/ \E fc \in FunctionCalls : toolServe(fc)
  \/ \E fc \in FunctionCalls : toolPass(fc)
  \/ \E fc \in FunctionCalls : toolUnknown(fc)
  \/ \E fc \in FunctionCalls : toolAction(fc)
  \/ \E resp \in ResolverOutcomes : toolActionReturns(resp)
  \/ toolActionFinally
  \/ \E i \in 1..Len(verifs), resp \in VerificationResponses : VerifyAnswer(i, resp)
  \/ \E id \in OrderIds : cookButton(id)

SpecTools == Init /\ [][NextTools]_vars

\* The abandon slice: the pass tool call and the pass tile, next to the
\* regular actions of the planner that may be in flight meanwhile.
NextAbandon ==
  \/ \E i \in 1..Len(inventory) : toggleIngredient(inventory[i].name)
  \/ \E action \in {ActionBoil, ActionPass} : executeAction(action)
  \/ \E i \in 1..Len(manualCalls), resp \in CombinationResponses : executeActionReturns(i, resp)
  \/ \E fc \in FunctionCalls : toolPass(fc)
  \/ \E fc \in CookCalls : toolAction(fc)
  \/ \E resp \in ResolverOutcomes : toolActionReturns(resp)
  \/ toolActionFinally
  \/ \E id \in OrderIds : pickUpButton(id)
  \/ \E id \in OrderIds : cookButton(id)

SpecAbandon == Init /\ [][NextAbandon]_vars

\* The failure slice: the three ways an attempt fails (a request the pantry
\* cannot resolve, a resolver that returns nothing, a dish that matches no
\* order), on the manual path and on the planner's.
FailCalls ==
  {fc \in FunctionCalls :
     \/ fc.name = "serve_on_leaf" /\ fc.dish = NameVada
     \/ fc.name = "boil" /\ fc.ingredients \in {<<NameUradDalReq>>, <<NameIce>>}}

NextFail ==
  \/ \E i \in 1..Len(inventory) : toggleIngredient(inventory[i].name)
  \/ executeAction(ActionBoil)
  \/ \E i \in 1..Len(manualCalls), resp \in CombinationResponses : executeActionReturns(i, resp)
  \/ \E fc \in FailCalls : toolServe(fc)
  \/ \E fc \in FailCalls : toolAction(fc)
  \/ \E resp \in ResolverOutcomes : toolActionReturns(resp)
  \/ toolActionFinally
  \/ \E i \in 1..Len(verifs), resp \in VerificationResponses : VerifyAnswer(i, resp)
  \/ \E id \in OrderIds : pickUpButton(id)
  \/ \E id \in OrderIds : cookButton(id)

SpecFail == Init /\ [][NextFail]_vars

\* every call of the completion service returns, with a result or an error,
\* and sendMessage resolves: the continuation of an await is run
ServiceReturns ==
  /\ WF_vars(\E i \in 1..Len(manualCalls), resp \in CombinationResponses : executeActionReturns(i, resp))
  /\ WF_vars(\E resp \in ResolverOutcomes : toolActionReturns(resp))
  /\ WF_vars(toolActionFinally)
  /\ WF_vars(\E i \in 1..Len(verifs), resp \in VerificationResponses : VerifyAnswer(i, resp))

SpecFailFair == SpecFail /\ ServiceReturns


\* The lookup slice: normalizeIngredientName and findIngredientInInventory
\* applied to names of every shape, against inventories the program can hold
\* (products with distinct keys in front of the seed ingredients).
NameCurryLeaves == <<"C", "u", "r", "r", "y", " ", "L", "e", "a", "v", "e", "s">>
NameCurryDashLeaves == <<"c", "u", "r", "r", "y", "-", "l", "e", "a", "v", "e", "s">>
NameCURRYLEAVES == <<"C", "U", "R", "R", "Y", "L", "E", "A", "V", "E", "S">>
NameCurryLeaf == <<"c", "u", "r", "r", "y", " ", "l", "e", "a", "f">>
Name7Up == <<"7", "-", "U", "p", "!">>
NamePunctuation == <<"!", " ", "?">>
NameEmpty == <<>>

LookupNames ==
  { NameCurryLeaves, NameCurryDashLeaves, NameCURRYLEAVES, NameCurryLeaf, Name7Up,
    NamePunctuation, NameEmpty, NameSalt, NameSALT, NameUradDalReq, NameIce }

LookupProducts ==
  { [name |-> NameCurryLeaves, emoji |-> "leaf"],
    [name |-> NameCurryDashLeaves, emoji |-> "herb"],
    [name |-> Name7Up, emoji |-> "cup"],
    [name |-> NameVada, emoji |-> "donut"] }

LookupInventories ==
  {STARTING_INGREDIENTS}
    \cup {<<a>> \o STARTING_INGREDIENTS : a \in LookupProducts}
    \cup UNION {{<<a, b>> \o STARTING_INGREDIENTS :
                    b \in {c \in LookupProducts :
                             normalizeIngredientName(c.name) # normalizeIngredientName(a.name)}} :
                 a \in LookupProducts}

InitLookup ==
  /\ inventory \in LookupInventories
  /\ selectedIngredients = <<>>
  /\ timeline = <<>>
  /\ activeAction = "null"
  /\ orders = EXAMPLE_ORDERS
  /\ isCooking = FALSE
  /\ pendingText = NoText
  /\ now = Len(EXAMPLE_ORDERS) + 1
  /\ agent = AgentIdle
  /\ finallyPending = FALSE
  /\ responseCount = 0
  /\ manualCalls = <<>>
  /\ verifs = <<>>
  /\ servedCount = 0
  /\ crashed = FALSE
  /\ last = Did("init", NoId, "")

\* a call of normalizeIngredientName(name); last.pre is what it returns
callNormalize(name) ==
  /\ last' = Did("normalizeIngredientName", <<name, 0>>, normalizeIngredientName(name))
  /\ UNCHANGED <<inventory, selectedIngredients, timeline, activeAction, orders, isCooking, pendingText, now, agent, finallyPending, responseCount, manualCalls, verifs, servedCount, crashed>>

\* a call of findIngredientInInventory(name, inventory); last.pre is what it returns
callFind(name) ==
  /\ last' = Did("findIngredientInInventory", <<name, 0>>, findIngredientInInventory(name, inventory))
  /\ UNCHANGED <<inventory, selectedIngredients, timeline, activeAction, orders, isCooking, pendingText, now, agent, finallyPending, responseCount, manualCalls, verifs, servedCount, crashed>>

NextLookup ==
  \/ \E name \in LookupNames : callNormalize(name)
  \/ \E name \in LookupNames : callFind(name)

SpecLookup == InitLookup /\ [][NextLookup]_vars

\* --------------------------------------------------------------------------
\* Properties
\* --------------------------------------------------------------------------
Terminal == {"completed", "failed"}
ServeAnnouncements(tl) == Cardinality({k \in 1..Len(tl) : tl[k].id[1] = "serve"})
HasKey(inv, name) ==
  \E k \in 1..Len(inv) : normalizeIngredientName(inv[k].name) = normalizeIngredientName(name)
IsProduct(result) == result \notin {NullIngredient, UndefinedIngredient, ErrorIngredient}

\* C1: in every reachable state, whatever the interleaving of manual and
\* agent-dispatched combinations, no two inventory entries have equal
\* normalized names.
C1_NoCollidingNames ==
  \A i, j \in 1..Len(inventory) :
    i # j => normalizeIngredientName(inventory[i].name) # normalizeIngredientName(inventory[j].name)

\* a manual and an agent-dispatched combination both completed, with two
\* spellings of one key, and the inventory holds that key once
C1_Witness ==
  \E i, j \in 1..Len(timeline) :
    /\ timeline[i].id[1] = "" /\ timeline[j].id[1] = "cooking"
    /\ IsProduct(timeline[i].result) /\ IsProduct(timeline[j].result)
    /\ timeline[i].result.name # timeline[j].result.name
    /\ normalizeIngredientName(timeline[i].result.name)
         = normalizeIngredientName(timeline[j].result.name)
    /\ Cardinality({k \in 1..Len(inventory) :
                      normalizeIngredientName(inventory[k].name)
                        = normalizeIngredientName(timeline[i].result.name)}) = 1

\* C2: a pickup (Manual button, or the single-order AI cook request) changes
\* the ledger only when the order is not_started, and then only that order's
\* status, to in_progress; on an order in any other status it leaves every
\* field of every order as it was, and nothing throws.
C2_PickupOnlyFromNotStarted ==
  [][last'.op \in {"handlePickUp", "handleCookWithGemini"} =>
       /\ Len(orders') = Len(orders)
       /\ \A i \in 1..Len(orders) :
            IF orders[i].id = last'.arg /\ orders[i].status = "not_started"
            THEN orders'[i] = [orders[i] EXCEPT !.status = "in_progress"]
            ELSE orders'[i] = orders[i]
       /\ ~crashed']_vars

\* the AI cook request was made for an order already in_progress
C2_Witness ==
  /\ last.op = "handleCookWithGemini"
  /\ last.pre = "in_progress"
  /\ \E i \in 1..Len(orders) : orders[i].id = last.arg /\ orders[i].status = "in_progress"

\* C3: an order that is completed or failed keeps its status and its
\* servedDish in every later step, the late answer of a verification that
\* listed it as in_progress included.
C3_TerminalIsFinal ==
  [][\A i \in 1..Len(orders) :
       orders[i].status \in Terminal =>
         \A j \in 1..Len(orders') :
           orders'[j].id = orders[i].id =>
             /\ orders'[j].status = orders[i].status
             /\ orders'[j].servedDish = orders[i].servedDish]_vars

\* C4: a regular tool call with at least one requested name, none of which
\* resolves against the inventory, gets a failure response, appends nothing
\* to the timeline, starts no resolver call and leaves inventory and ledger
\* as they were.
C4_UnresolvableRequestRejected ==
  [][(/\ last'.op \in {"tool-missing", "tool-action"}
      /\ Len(last'.pre) >= 1
      /\ \A k \in 1..Len(last'.pre) : ~HasKey(inventory, last'.pre[k]))
     => /\ last'.response.success = FALSE
        /\ last'.response.error # ""
        /\ timeline' = timeline
        /\ inventory' = inventory
        /\ orders' = orders
        /\ agent'.pc # "combining"
        /\ manualCalls' = manualCalls]_vars

\* the planner asked to boil 'ice' and was refused
C4_Witness ==
  /\ last.op = "tool-missing"
  /\ last.pre = <<NameIce>>
  /\ last.response.success = FALSE
  /\ ~HasKey(inventory, NameIce)

BoiledItems == <<"b", "o", "i", "l", "e", "d", " ", "i", "t", "e", "m", "s">>

C6_OneOrderPerVerification ==
  [][/\ (last'.op = "verify-match" /\ timeline' # timeline) =>
          /\ Len(orders') = Len(orders)
          /\ Len(verifs') = Len(verifs) - 1
          /\ \E i \in 1..Len(verifs) :
               /\ verifs[i].snap[verifs[i].idx].id = last'.arg
               /\ verifs[i].dish = last'.pre
               /\ verifs' = SubSeq(verifs, 1, i - 1) \o SubSeq(verifs, i + 1, Len(verifs))
          /\ \A k \in 1..Len(orders) :
               IF orders[k].id = last'.arg
               THEN /\ orders'[k].status = "completed"
                    /\ orders'[k].servedDish = last'.pre
                    /\ orders'[k].id = orders[k].id
                    /\ orders'[k].name = orders[k].name
                    /\ orders'[k].difficulty = orders[k].difficulty
               ELSE orders'[k] = orders[k]
     /\ last'.op \in {"verify-next", "verify-fail"} => orders' = orders
     /\ (last'.op = "verify-next" /\ verifs' # verifs) =>
          \E i \in 1..Len(verifs) :
            /\ verifs[i].snap[verifs[i].idx].id = last'.arg
            /\ verifs' = [verifs EXCEPT ![i].idx = verifs[i].idx + 1]
     /\ (last'.op \in {"executeAction-serve", "tool-serve"} /\ Len(verifs') = Len(verifs) + 1) =>
          LET inProgress == {k \in 1..Len(orders) : orders[k].status = "in_progress"}
              snap == verifs'[Len(verifs')].snap
          IN /\ verifs'[Len(verifs')].idx = 1
             /\ Len(snap) = Cardinality(inProgress)
             /\ \A a \in 1..Len(snap) :
                  \E k \in inProgress :
                    /\ orders[k].id = snap[a].id
                    /\ Cardinality({m \in inProgress : m < k}) = a - 1]_vars

\* two orders were in_progress, a verification completed the earlier one
\* and the later one is still in_progress
C6_Witness ==
  /\ last.op = "verify-match"
  /\ \E i, j \in 1..Len(orders) :
       /\ i < j
       /\ orders[i].id = last.arg
       /\ orders[i].status = "completed"
       /\ orders[i].servedDish = last.pre
       /\ orders[j].status = "in_progress"

\* C7: the abandon tool call turns every in_progress order into failed with
\* servedDish 'Vanished', leaves the other orders as they were, leaves no
\* order in_progress, appends one narration entry, starts no resolver call
\* and reports success.
C7_AbandonFailsEveryInProgress ==
  [][(last'.op = "tool-pass" /\ timeline' # timeline) =>
       /\ Len(orders') = Len(orders)
       /\ \A k \in 1..Len(orders) :
            IF orders[k].status = "in_progress"
            THEN orders'[k] = [orders[k] EXCEPT !.status = "failed",
                                                !.servedDish = <<"V", "a", "n", "i", "s", "h", "e", "d">>]
            ELSE orders'[k] = orders[k]
       /\ \A k \in 1..Len(orders') : orders'[k].status # "in_progress"
       /\ Len(timeline') = Len(timeline) + 1
       /\ SubSeq(timeline', 1, Len(timeline)) = timeline
       /\ timeline'[Len(timeline')].id[1] = "pass"
       /\ timeline'[Len(timeline')].action = NoAction
       /\ agent'.pc # "combining"
       /\ manualCalls' = manualCalls
       /\ inventory' = inventory
       /\ last'.response.success = TRUE]_vars

\* the abandon was dispatched with two orders in_progress
C7_Witness ==
  /\ last.op = "tool-pass"
  /\ last.pre = 2
  /\ Cardinality({k \in 1..Len(orders) :
                    orders[k].status = "failed" /\ orders[k].servedDish = Vanished}) = 2
  /\ timeline[Len(timeline)].id[1] = "pass"

\* C8: every resolver call in flight, manual or agent-dispatched, has its
\* entry in the timeline, with that call's id and action and result = null.
C8_PendingEntryWhileInFlight ==
  /\ \A i \in 1..Len(manualCalls) :
       \E k \in 1..Len(timeline) :
         /\ timeline[k].id = manualCalls[i].id
         /\ timeline[k].action = manualCalls[i].action
         /\ timeline[k].result = NullIngredient
  /\ agent.pc = "combining" =>
       \E k \in 1..Len(timeline) :
         /\ timeline[k].id = agent.id
         /\ timeline[k].action = agent.name
         /\ timeline[k].result = NullIngredient

\* a manual and an agent-dispatched call are both in flight
C8_Witness ==
  /\ Len(manualCalls) = 1
  /\ agent.pc = "combining"
  /\ Cardinality({k \in 1..Len(timeline) :
                    timeline[k].result = NullIngredient
                    /\ timeline[k].id \in {manualCalls[1].id, agent.id}}) = 2

\* C9: when the resolver returns, to an agent-dispatched call with at least
\* one validated ingredient, an ingredient whose key the inventory lacks,
\* the inventory gains exactly that one entry, exactly one timeline entry
\* changes, from result = null to that ingredient, and the response has
\* success = true with the ingredient's name and emoji.
C9_NewResultRecorded ==
  [][(/\ last'.op = "tool-returns"
      /\ timeline' # timeline
      /\ last'.pre # NullIngredient
      /\ ~HasKey(inventory, last'.pre.name)
      /\ \E k \in 1..Len(timeline) :
           timeline[k].id = last'.arg /\ Len(timeline[k].ingredients) >= 1)
     => /\ Len(inventory') = Len(inventory) + 1
        /\ Cardinality({k \in 1..Len(inventory') : inventory'[k] = last'.pre}) = 1
        /\ \A k \in 1..Len(inventory) : \E m \in 1..Len(inventory') : inventory'[m] = inventory[k]
        /\ Len(timeline') = Len(timeline)
        /\ Cardinality({k \in 1..Len(timeline) : timeline'[k] # timeline[k]}) = 1
        /\ \A k \in 1..Len(timeline) :
             timeline'[k] # timeline[k] =>
               /\ timeline[k].id = last'.arg
               /\ timeline[k].result = NullIngredient
               /\ timeline'[k] = [timeline[k] EXCEPT !.result = last'.pre]
        /\ last'.response.success = TRUE
        /\ last'.response.result = last'.pre.name
        /\ last'.response.emoji = last'.pre.emoji]_vars

\* the planner's boil call came back with 'Vada', new to the inventory
C9_Witness ==
  /\ last.op = "tool-returns"
  /\ last.pre = [name |-> NameVada, emoji |-> "donut"]
  /\ Len(inventory) = Len(STARTING_INGREDIENTS) + 1
  /\ inventory[1] = last.pre
  /\ last.response.success = TRUE
  /\ \E k \in 1..Len(timeline) : timeline[k].id = last.arg /\ timeline[k].result = last.pre

\* C10 as stated: once no verification is under way, the timeline holds one
\* serve narration for each dish served.
C10_OneNarrationPerServe ==
  verifs = <<>> => ServeAnnouncements(timeline) + Outcomes(timeline) = servedCount

\* C10: each dish served, by the agent or by hand, puts two narrations in
\* the timeline: the announcement when the serve is dispatched, and one
\* outcome narration when its verification ends (match, no match, or no
\* order in_progress).
C10_AnnouncementAndOutcome ==
  /\ ServeAnnouncements(timeline) = servedCount
  /\ Cardinality({k \in 1..Len(timeline) :
                    timeline[k].id[1] \in {"verify-noorder", "verify", "verify-fail"}})
       + Len(verifs) = servedCount

\* two dishes were served, one matched an order and one matched none
C10_Witness ==
  /\ servedCount = 2
  /\ verifs = <<>>
  /\ \E k \in 1..Len(timeline) : timeline[k].id[1] = "verify"
  /\ \E k \in 1..Len(timeline) : timeline[k].id[1] = "verify-fail"
  /\ ServeAnnouncements(timeline) = 2

\* C11: the user never has two combination calls outstanding: at most one
\* timeline entry of a manual action is pending at any time, while the agent
\* is cooking and after an action of the agent has finished included.
C11_OneManualCallAtATime ==
  /\ Len(manualCalls) <= 1
  /\ Cardinality({k \in 1..Len(timeline) :
                    timeline[k].id[1] = "" /\ timeline[k].result = NullIngredient}) <= 1

ToolOps == {"tool-serve", "tool-pass", "tool-unknown", "tool-missing", "tool-action"}

\* C12: a serve call without a dish string, and a regular-action call
\* without an ingredients sequence, are answered with a failure and leave
\* timeline, inventory and ledger as they were, with no resolver call and
\* no verification started.
C12_MalformedCallRejected ==
  [][(\/ last'.op = "tool-serve" /\ last'.call.dish = Undefined
      \/ last'.op \in {"tool-missing", "tool-action"} /\ last'.call.ingredients = NoIngredients)
     => /\ last'.response.success = FALSE
        /\ last'.response.error # ""
        /\ timeline' = timeline
        /\ inventory' = inventory
        /\ orders' = orders
        /\ agent'.pc = "idle"
        /\ verifs' = verifs]_vars

\* C13: when the last order of a verification's snapshot is not accepted
\* (none was), the verification ends with a failure narration, the ledger
\* is unchanged and an agent caller is answered success = false; and an
\* order becomes failed in an abandon step only.
C13_NoMatchChangesNoOrder ==
  [][/\ (last'.op = "verify-fail" /\ timeline' # timeline) =>
          /\ orders' = orders
          /\ Len(timeline') = Len(timeline) + 1
          /\ SubSeq(timeline', 1, Len(timeline)) = timeline
          /\ timeline'[Len(timeline')].id[1] = "verify-fail"
          /\ \E i \in 1..Len(verifs) :
               /\ verifs' = SubSeq(verifs, 1, i - 1) \o SubSeq(verifs, i + 1, Len(verifs))
               /\ verifs[i].idx = Len(verifs[i].snap)
               /\ verifs[i].caller = "agent" =>
                    /\ last'.response.name = "serve_on_leaf"
                    /\ last'.response.success = FALSE
                    /\ last'.response.error # ""
     /\ \A j \in 1..Len(orders') :
          orders'[j].status = "failed" =>
            \/ \E k \in 1..Len(orders) : orders[k].id = orders'[j].id /\ orders[k].status = "failed"
            \/ last'.op = "tool-pass"]_vars

\* the agent's serve matched no order; the order is still in_progress
C13_Witness ==
  /\ last.op = "verify-fail"
  /\ last.response.name = "serve_on_leaf"
  /\ last.response.success = FALSE
  /\ timeline[Len(timeline)].id[1] = "verify-fail"
  /\ \E k \in 1..Len(orders) : orders[k].id = last.arg /\ orders[k].status = "in_progress"

\* C14: a serve with no order in_progress starts no query of the
\* completion service, appends its announcement and one narration, leaves
\* the ledger unchanged, and an agent caller is answered success = true.
C14_NoOrderServeSucceeds ==
  [][(/\ last'.op \in {"tool-serve", "executeAction-serve"}
      /\ timeline' # timeline
      /\ \A k \in 1..Len(orders) : orders[k].status # "in_progress")
     => /\ orders' = orders
        /\ verifs' = verifs
        /\ Len(timeline') = Len(timeline) + 2
        /\ SubSeq(timeline', 1, Len(timeline)) = timeline
        /\ timeline'[Len(timeline') - 1].id[1] = "serve"
        /\ timeline'[Len(timeline')].id[1] = "verify-noorder"
        /\ last'.op = "tool-serve" =>
             /\ last'.response.name = "serve_on_leaf"
             /\ last'.response.success = TRUE
             /\ agent'.pc = "idle"]_vars

\* the agent served while the only order was not_started
C14_Witness ==
  /\ last.op = "tool-serve"
  /\ last.response.success = TRUE
  /\ verifs = <<>>
  /\ timeline[Len(timeline)].id[1] = "verify-noorder"
  /\ \E k \in 1..Len(orders) : orders[k].status = "not_started"
  /\ \A k \in 1..Len(orders) : orders[k].status # "in_progress"

\* C15: an answer that is an error or unparsable text changes no order;
\* the verification goes on with the next order of its snapshot if there is
\* one, else it ends with the failure narration; and an accepting answer
\* for a later order of the snapshot completes that order.
C15_ErrorSkipsOneOrder ==
  [][/\ (last'.answer.kind \in {"error", "badjson"} /\ vars' # vars) =>
          /\ orders' = orders
          /\ \E i \in 1..Len(verifs) :
               /\ verifs[i].snap[verifs[i].idx].id = last'.arg
               /\ IF verifs[i].idx < Len(verifs[i].snap)
                  THEN /\ verifs' = [verifs EXCEPT ![i].idx = verifs[i].idx + 1]
                       /\ timeline' = timeline
                  ELSE /\ verifs' = SubSeq(verifs, 1, i - 1) \o SubSeq(verifs, i + 1, Len(verifs))
                       /\ timeline'[Len(timeline')].id[1] = "verify-fail"
     /\ (last'.op = "verify-match" /\ timeline' # timeline) =>
          \A k \in 1..Len(orders) :
            orders[k].id = last'.arg =>
              orders'[k].status = "completed" /\ orders'[k].servedDish = last'.pre]_vars

\* the service failed on the first of two in_progress orders and the
\* verification has moved on to the second
C15_Witness ==
  /\ last.op = "verify-next"
  /\ last.answer.kind \in {"error", "badjson"}
  /\ \E i \in 1..Len(verifs) :
       /\ verifs[i].idx = 2
       /\ verifs[i].snap[1].id = last.arg
  /\ Cardinality({k \in 1..Len(orders) : orders[k].status = "in_progress"}) = 2

\* C16: every tool call is answered exactly once, with a response that
\* names the call and carries a boolean success: a step that receives a
\* call either answers it or leaves it awaiting the completion service with
\* no response sent; the step that ends the wait sends the one response,
\* together with the effects it reports; no call ever has two responses.
C16_OneResponsePerCall ==
  [][/\ responseCount' <= 1
     /\ (last'.op \in ToolOps /\ vars' # vars) =>
          \/ /\ responseCount' = 1
             /\ last'.response.name = last'.call.name
             /\ last'.response.success \in BOOLEAN
             /\ agent'.pc = "idle"
          \/ /\ responseCount' = 0
             /\ last'.response.name = ""
             /\ agent'.pc \in {"combining", "verifying"}
             /\ agent'.name = last'.call.name
     /\ (agent.pc # "idle" /\ vars' # vars /\ (agent'.pc = "idle" \/ crashed')) =>
          /\ responseCount = 0
          /\ responseCount' = 1
          /\ last'.response.name = agent.name
          /\ last'.response.success \in BOOLEAN
     /\ (agent.pc # "idle" /\ agent'.pc # "idle" /\ ~crashed') => responseCount' = 0
     /\ (last'.op = "tool-returns" /\ last'.response.success) =>
          \E k \in 1..Len(timeline') :
            /\ timeline'[k].id = last'.arg
            /\ timeline'[k].result.name = last'.response.result
     /\ (last'.op = "tool-pass" /\ timeline' # timeline) =>
          \A k \in 1..Len(orders') : orders'[k].status # "in_progress"
     /\ (last'.op \in {"verify-match", "verify-fail"} /\ last'.response.name # "") =>
          last'.response.success = (last'.op = "verify-match")]_vars

\* a serve call of the agent waited for the verification and was answered
C16_Witness ==
  /\ last.op = "verify-match"
  /\ last.response.name = "serve_on_leaf"
  /\ last.response.success = TRUE
  /\ responseCount = 1
  /\ agent.pc = "idle"

\* C17: executeCombination returns an ingredient exactly for a response
\* that is JSON carrying result_name and emoji, and then that name and
\* emoji; for an error, for text that is not JSON, for no text and for JSON
\* lacking a field it returns failure.
C17_ResolverFailsOnMissingFields ==
  last.op \in {"executeAction-returns", "executeAction-crash", "tool-returns", "tool-crash"} =>
    IF /\ last.combination.kind = "json"
       /\ last.combination.result_name # Undefined
       /\ last.combination.emoji # "#undefined"
    THEN last.pre = [name |-> last.combination.result_name, emoji |-> last.combination.emoji]
    ELSE last.pre = NullIngredient

\* C18: a batch cook request is one step of the ledger: after it every
\* requested order that was not_started is in_progress, with no other field
\* changed, and every other order is as it was.
C18_BatchIsOneUpdate ==
  [][last'.op = "handleCookBatchWithGemini" =>
       /\ Len(orders') = Len(orders)
       /\ \A k \in 1..Len(orders) :
            IF orders[k].id \in last'.pre /\ orders[k].status = "not_started"
            THEN orders'[k] = [orders[k] EXCEPT !.status = "in_progress"]
            ELSE orders'[k] = orders[k]
       /\ \A id \in last'.pre :
            \E k \in 1..Len(orders') : orders'[k].id = id /\ orders'[k].status = "in_progress"]_vars

\* a batch of one order was requested while another order was not_started
C18_Witness ==
  /\ last.op = "handleCookBatchWithGemini"
  /\ Cardinality(last.pre) = 1
  /\ \E j, k \in 1..Len(orders) :
       /\ orders[j].id \in last.pre
       /\ orders[j].status = "in_progress"
       /\ orders[k].id \notin last.pre
       /\ orders[k].status = "not_started"

\* C19: the clear removes exactly the completed and failed orders and
\* keeps the others, unchanged, in their order. No cleared order comes
\* back: an id enters the ledger only through handleAddOrder, as a new
\* not_started order whose id is later than every id the ledger has held.
C19_ClearRemovesTerminalForGood ==
  [][/\ last'.op = "handlePerformClearSummary" =>
          LET kept == {k \in 1..Len(orders) : orders[k].status \notin Terminal} IN
          /\ Len(orders') = Cardinality(kept)
          /\ \A k \in kept : orders'[Cardinality({m \in kept : m <= k})] = orders[k]
     /\ \A k \in 1..Len(orders) : orders[k].id[2] < now
     /\ now' >= now
     /\ \A j \in 1..Len(orders') :
          (\A k \in 1..Len(orders) : orders[k].id # orders'[j].id) =>
            /\ last'.op = "handleAddOrder"
            /\ orders'[j].id[2] >= now
            /\ orders'[j].id[2] < now'
            /\ orders'[j].status = "not_started"]_vars

\* two orders were in_progress, one was completed and cleared, the other
\* is still in the ledger
C19_Witness ==
  /\ last.op = "handlePerformClearSummary"
  /\ Len(orders) = 1
  /\ orders[1].status = "in_progress"
  /\ now > 3

\* C20: in every reachable state an order that has a servedDish is
\* completed or failed.
C20_ServedDishOnlyOnTerminal ==
  \A k \in 1..Len(orders) :
    orders[k].servedDish # Undefined => orders[k].status \in {"completed", "failed"}

\* one order was completed by a serve and another failed by an abandon
C20_Witness ==
  \E j, k \in 1..Len(orders) :
    /\ orders[j].status = "completed"
    /\ orders[j].servedDish \notin {Undefined, Vanished}
    /\ orders[k].status = "failed"
    /\ orders[k].servedDish = Vanished

PendingAttempts(tl) ==
  {k \in 1..Len(tl) : tl[k].action \notin {"", NoAction} /\ tl[k].result = NullIngredient}

\* C21: an abandon, dispatched by the pass tool call or by the pass tile,
\* starts no resolver call, adds no pending action-attempt entry to the
\* timeline and leaves the inventory as it was.
C21_AbandonStartsNoCombination ==
  [][(\/ last'.op = "tool-pass"
      \/ last'.op = "executeAction" /\ last'.pre = "pass")
     => /\ manualCalls' = manualCalls
        /\ agent'.pc = agent.pc
        /\ Cardinality(PendingAttempts(timeline')) = Cardinality(PendingAttempts(timeline))
        /\ inventory' = inventory]_vars

\* the ingredient a returning combination hands to setInventory
Inserted(tl, id) ==
  LET k == CHOOSE k \in 1..Len(tl) : tl[k].id = id IN tl[k].result

\* C22: when a combination returns an ingredient whose normalized name the
\* inventory already holds, the inventory is unchanged (same entries, same
\* order, the first-seen entry of that key included); when the key is new
\* the ingredient is put in front; either way a second insertion of the same
\* ingredient finds its key present, once.
C22_InsertIsIdempotent ==
  [][(/\ last'.op \in {"executeAction-returns", "tool-returns"}
      /\ timeline' # timeline
      /\ IsProduct(Inserted(timeline', last'.arg)))
     => LET ing == Inserted(timeline', last'.arg) IN
        /\ IF HasKey(inventory, ing.name)
           THEN inventory' = inventory
           ELSE inventory' = <<ing>> \o inventory
        /\ Cardinality({k \in 1..Len(inventory') :
                          normalizeIngredientName(inventory'[k].name)
                            = normalizeIngredientName(ing.name)}) = 1]_vars

\* 'va-da' came back while the inventory held 'Vada': the inventory kept
\* 'Vada' with its emoji and did not grow
C22_Witness ==
  /\ last.op \in {"executeAction-returns", "tool-returns"}
  /\ last.pre = [name |-> NameVaDa, emoji |-> "ring"]
  /\ Len(inventory) = Len(STARTING_INGREDIENTS) + 1
  /\ inventory[1] = [name |-> NameVada, emoji |-> "donut"]
  /\ \E k \in 1..Len(timeline) : timeline[k].id = last.arg /\ timeline[k].result = last.pre

\* C23: a serve tool call is answered success = true when the verification
\* matcher returned true (no order was in_progress, or an order was accepted
\* and completed) and success = false with an error when it returned false
\* (the snapshot was exhausted); no step of a serve call starts a resolver
\* call or changes the inventory.
C23_ServeReportsMatcherOutcome ==
  [][/\ (last'.op = "tool-serve" /\ vars' # vars) =>
          /\ inventory' = inventory
          /\ manualCalls' = manualCalls
          /\ agent'.pc # "combining"
          /\ IF \E k \in 1..Len(orders) : orders[k].status = "in_progress"
             THEN /\ last'.response.name = ""
                  /\ agent'.pc = "verifying"
                  /\ Len(verifs') = Len(verifs) + 1
                  /\ verifs'[Len(verifs')].caller = "agent"
             ELSE /\ last'.response.name = "serve_on_leaf"
                  /\ last'.response.success = TRUE
                  /\ last'.response.error = ""
     /\ (/\ last'.op \in {"verify-match", "verify-next", "verify-fail"}
         /\ vars' # vars
         /\ \A i \in 1..Len(verifs) : verifs[i].caller = "agent") =>
          /\ inventory' = inventory
          /\ manualCalls' = manualCalls
          /\ agent'.pc # "combining"
          /\ last'.op = "verify-match" =>
               /\ last'.response.name = "serve_on_leaf"
               /\ last'.response.success = TRUE
               /\ last'.response.error = ""
               /\ last'.answer.matches = "true"
          /\ last'.op = "verify-fail" =>
               /\ last'.response.name = "serve_on_leaf"
               /\ last'.response.success = FALSE
               /\ last'.response.error # ""
               /\ orders' = orders
          /\ last'.op = "verify-next" => last'.response.name = ""]_vars

\* the planner served 'Vada', the order was completed by it and the planner
\* was told so; the inventory is the seed inventory still
C23_Witness ==
  /\ last.op = "verify-match"
  /\ last.pre = NameVada
  /\ last.response.name = "serve_on_leaf"
  /\ last.response.success = TRUE
  /\ inventory = STARTING_INGREDIENTS
  /\ \E k \in 1..Len(orders) :
       orders[k].id = last.arg /\ orders[k].status = "completed" /\ orders[k].servedDish = NameVada

\* C24: every entry that records an action attempt, of the user or of the
\* planner, lists only names that inventory entries carry, as written
\* there, at the step that appends the entry.
C24_EntryNamesAreInventoryNames ==
  [][\A k \in 1..Len(timeline') :
       (/\ k > Len(timeline)
        /\ timeline'[k].action \notin {"", NoAction})
       => /\ inventory' = inventory
          /\ \A n \in 1..Len(timeline'[k].ingredients) :
               \E m \in 1..Len(inventory) : inventory[m].name = timeline'[k].ingredients[n]]_vars

\* the planner asked for 'Urad-Dal' and its entry lists 'urad dal'; the
\* user's entry lists a selected tile
C24_Witness ==
  \E i, j \in 1..Len(timeline) :
    /\ timeline[i].id[1] = "cooking"
    /\ timeline[i].ingredients = <<NameUradDal>>
    /\ timeline[j].id[1] = ""
    /\ Len(timeline[j].ingredients) = 1
    /\ last.op = "tool-action"
    /\ last.pre = <<NameUradDalReq>>

\* C25: a step never removes or reorders timeline entries; it changes at
\* most one existing entry, and then only the result of an entry that is
\* pending, from null to a value, in the step that ends the combination call
\* that entry belongs to. A resolved entry therefore never changes again.
C25_TimelineAppendOnly ==
  [][/\ Len(timeline') >= Len(timeline)
     /\ Cardinality({k \in 1..Len(timeline) : timeline'[k] # timeline[k]}) <= 1
     /\ \A k \in 1..Len(timeline) :
          timeline'[k] # timeline[k] =>
            /\ timeline[k].result = NullIngredient
            /\ timeline[k].action \notin {"", NoAction}
            /\ timeline'[k].result # NullIngredient
            /\ timeline'[k] = [timeline[k] EXCEPT !.result = timeline'[k].result]
            /\ last'.arg = timeline[k].id
            /\ \/ /\ last'.op = "executeAction-returns"
                  /\ \E i \in 1..Len(manualCalls) :
                       /\ manualCalls[i].id = timeline[k].id
                       /\ manualCalls' = SubSeq(manualCalls, 1, i - 1)
                                           \o SubSeq(manualCalls, i + 1, Len(manualCalls))
               \/ /\ last'.op = "tool-returns"
                  /\ agent.pc = "combining"
                  /\ agent.id = timeline[k].id
                  /\ agent'.pc = "idle"]_vars

\* the first of two pending entries was resolved and the second, appended
\* after it, is still pending behind it
C25_Witness ==
  /\ last.op \in {"executeAction-returns", "tool-returns"}
  /\ Len(timeline) = 2
  /\ timeline[1].id = last.arg
  /\ IsProduct(timeline[1].result)
  /\ timeline[2].action \notin {"", NoAction}
  /\ timeline[2].result = NullIngredient

\* C26: a text buffered with a tool call goes to the timeline entry of that
\* call and to no other: the step that handles the next tool call empties
\* the buffer, and the entry that step appends carries the buffered text.
C26_BufferedTextGoesToItsCall ==
  [][(/\ last'.op \in ToolOps
      /\ vars' # vars
      /\ pendingText # NoText)
     => /\ pendingText' = NoText
        /\ Len(timeline') > Len(timeline) =>
             timeline'[Len(timeline) + 1].text = pendingText]_vars

IsNarration(e) == e.action \in {"", NoAction}

\* a step in which an attempt fails: the request is refused for its
\* ingredients, the resolver returns nothing, or the dish matches no order
FailureStep ==
  /\ vars' # vars
  /\ \/ last'.op \in {"tool-missing", "verify-fail"}
     \/ /\ last'.op \in {"executeAction-returns", "tool-returns"}
        /\ last'.pre = NullIngredient

TimelinePositions == 1..(MaxTimeline + MaxVerify)

\* C28: when every service call returns, every pending entry is eventually
\* resolved, the active action eventually returns to null and the
\* dispatcher eventually stands ready for the next tool call.
C28_PipelineNeverBlocked ==
  /\ \A k \in TimelinePositions :
       (k <= Len(timeline) /\ k \in PendingAttempts(timeline))
         ~> (k <= Len(timeline) /\ timeline[k].result # NullIngredient)
  /\ (activeAction # "null") ~> (activeAction = "null")
  /\ (agent.pc # "idle") ~> (agent.pc = "idle" /\ ~crashed)

\* C29: the pass tool call leaves the combination calls in flight and their
\* pending entries as they are; when a combination call returns, after an
\* abandon or not, its entry gets the result, the result's key is in the
\* inventory, and no order changes.
C29_AbandonCancelsNothing ==
  [][/\ (last'.op = "tool-pass" /\ vars' # vars) =>
          /\ manualCalls' = manualCalls
          /\ SubSeq(timeline', 1, Len(timeline)) = timeline
          /\ inventory' = inventory
     /\ (last'.op \in {"executeAction-returns", "tool-returns"} /\ vars' # vars) =>
          /\ orders' = orders
          /\ \E k \in 1..Len(timeline) :
               /\ timeline[k].id = last'.arg
               /\ timeline[k].result = NullIngredient
               /\ timeline'[k].result # NullIngredient
               /\ last'.pre # NullIngredient => timeline'[k].result = last'.pre
               /\ IsProduct(timeline'[k].result) => HasKey(inventory', timeline'[k].result.name)]_vars

\* the planner abandoned while the user's boil was in flight; the boil then
\* returned 'Vada', which is in its entry and in the inventory, and the
\* order is failed as the abandon left it
C29_Witness ==
  /\ last.op = "executeAction-returns"
  /\ last.pre = [name |-> NameVada, emoji |-> "donut"]
  /\ inventory[1] = last.pre
  /\ \E k, p \in 1..Len(timeline) :
       /\ k < p
       /\ timeline[k].id = last.arg
       /\ timeline[k].action = "boil"
       /\ timeline[k].result = last.pre
       /\ timeline[p].id[1] = "pass"
  /\ \A k \in 1..Len(orders) : orders[k].status = "failed" /\ orders[k].servedDish = Vanished

RECURSIVE Canonical(_)
\* a name lower-cased, with every character that is not a letter a-z or a
\* digit removed, read off the claim character by character
Canonical(name) ==
  IF name = <<>>
  THEN <<>>
  ELSE LET c == Head(name)
           lower == IF \E i \in 1..26 : UpperCase[i] = c
                    THEN LowerCase[CHOOSE i \in 1..26 : UpperCase[i] = c]
                    ELSE c
       IN (IF \/ \E i \in 1..26 : LowerCase[i] = lower
              \/ lower \in {"0", "1", "2", "3", "4", "5", "6", "7", "8", "9"}
           THEN <<lower>>
           ELSE <<>>) \o Canonical(Tail(name))

CurryLeavesKey == <<"c", "u", "r", "r", "y", "l", "e", "a", "v", "e", "s">>

\* C31: normalizeIngredientName returns the name lower-cased and stripped
\* of everything but a-z and 0-9, so two names have one key exactly when
\* they are equal after that; normalizing a key gives the key; the lookup
\* returns the first inventory entry whose key is the name's, or null when
\* there is none, and never throws.
C31_NormalizeAndLookup ==
  /\ last.op = "normalizeIngredientName" =>
       /\ last.pre = Canonical(last.arg[1])
       /\ \A k \in 1..Len(last.pre) :
            last.pre[k] \in {LowerCase[i] : i \in 1..26}
                              \cup {"0", "1", "2", "3", "4", "5", "6", "7", "8", "9"}
       /\ normalizeIngredientName(last.pre) = last.pre
       /\ last.arg[1] \in {NameCurryLeaves, NameCurryDashLeaves, NameCURRYLEAVES} =>
            last.pre = CurryLeavesKey
       /\ last.arg[1] = NameCurryLeaf => last.pre # CurryLeavesKey
  /\ last.op = "findIngredientInInventory" =>
       LET same == {k \in 1..Len(inventory) :
                      Canonical(inventory[k].name) = Canonical(last.arg[1])}
       IN /\ ~crashed
          /\ IF same = {}
             THEN last.pre = NullIngredient
             ELSE \E k \in same :
                    /\ \A m \in same : k <= m
                    /\ last.pre = inventory[k]

\* 'CURRYLEAVES' was looked up in an inventory that holds 'Curry Leaves'
\* behind another product, and that entry was found
C31_Witness ==
  /\ last.op = "findIngredientInInventory"
  /\ last.arg[1] = NameCURRYLEAVES
  /\ Len(inventory) = Len(STARTING_INGREDIENTS) + 2
  /\ inventory[2].name = NameCurryLeaves
  /\ last.pre = inventory[2]

\* the first place of a request at which a name with the key of `name` stands
FirstRequest(requested, name) ==
  CHOOSE i \in 1..Len(requested) :
    /\ Canonical(requested[i]) = Canonical(name)
    /\ \A j \in 1..(i - 1) : Canonical(requested[j]) # Canonical(name)

\* C32: the entry of a regular tool call lists, for each requested name
\* whose key the inventory holds, the inventory's own name of that key,
\* once, in the order in which the keys first occur in the request, and
\* nothing else.
C32_ValidatedList ==
  [][(last'.op = "tool-action" /\ Len(timeline') = Len(timeline) + 1) =>
       LET requested == last'.pre
           validated == timeline'[Len(timeline')].ingredients
       IN
       /\ \A j \in 1..Len(validated) :
            /\ \E m \in 1..Len(inventory) : inventory[m].name = validated[j]
            /\ \E i \in 1..Len(requested) : Canonical(requested[i]) = Canonical(validated[j])
       /\ \A i, j \in 1..Len(validated) :
            i < j =>
              /\ Canonical(validated[i]) # Canonical(validated[j])
              /\ FirstRequest(requested, validated[i]) < FirstRequest(requested, validated[j])
       /\ \A i \in 1..Len(requested) :
            (\E m \in 1..Len(inventory) : Canonical(inventory[m].name) = Canonical(requested[i]))
              => \E j \in 1..Len(validated) : Canonical(validated[j]) = Canonical(requested[i])]_vars

\* the planner asked for 'ice', 'SALT', 'Urad-Dal' and 'salt': the entry
\* lists 'salt' and 'urad dal'
C32_Witness ==
  /\ last.op = "tool-action"
  /\ last.pre = <<NameIce, NameSALT, NameUradDalReq, NameSalt>>
  /\ timeline[Len(timeline)].id = last.arg
  /\ timeline[Len(timeline)].ingredients = <<NameSalt, NameUradDal>>

\* C33: a verification completes an order only on an answer with matches =
\* true and a confidence above 0.7 (70 hundredths); an answer with matches =
\* true and confidence 0.7, and an answer with matches = false, change no
\* order.
C33_StrictConfidence ==
  [][(last'.op \in {"verify-match", "verify-next", "verify-fail"} /\ vars' # vars) =>
       /\ last'.op = "verify-match" =>
            /\ last'.answer.matches = "true"
            /\ last'.answer.confidence > 70
       /\ (\/ last'.answer.matches # "true"
           \/ last'.answer.confidence <= 70) =>
            /\ last'.op # "verify-match"
            /\ orders' = orders
       /\ orders' # orders => last'.op = "verify-match"]_vars

\* the service answered matches = true with confidence 0.7 and the order is
\* still in_progress
C33_Witness ==
  /\ last.op = "verify-fail"
  /\ last.answer.matches = "true"
  /\ last.answer.confidence = 70
  /\ \E k \in 1..Len(orders) : orders[k].id = last.arg /\ orders[k].status = "in_progress"

\* C34: every resolver call in flight, of the user or of the planner, was
\* made with at least one ingredient name: the pending entry of the call
\* lists the names handed to the resolver, and the list is not empty.
C34_ResolverGetsIngredients ==
  /\ \A i \in 1..Len(manualCalls) :
       \A k \in 1..Len(timeline) :
         timeline[k].id = manualCalls[i].id => Len(timeline[k].ingredients) >= 1
  /\ agent.pc = "combining" =>
       \A k \in 1..Len(timeline) :
         timeline[k].id = agent.id => Len(timeline[k].ingredients) >= 1

CountInProgress(ords) == Cardinality({k \in 1..Len(ords) : ords[k].status = "in_progress"})

\* C35: only a batch cook request can put a second order in_progress: a
\* step of any other kind raises the number of in_progress orders from zero
\* to one at most, and then it is a pickup or a single-order AI cook
\* request; while an order is in_progress neither starts a not_started
\* order.
C35_OneActiveOrderUnlessBatch ==
  [][(last'.op # "handleCookBatchWithGemini" /\ vars' # vars) =>
       /\ CountInProgress(orders') <= CountInProgress(orders) \/ CountInProgress(orders') = 1
       /\ CountInProgress(orders') > CountInProgress(orders) =>
            last'.op \in {"handlePickUp", "handleCookWithGemini"}
       /\ CountInProgress(orders) >= 1 =>
            \A k \in 1..Len(orders) :
              orders[k].status = "not_started" =>
                \E j \in 1..Len(orders') : orders'[j] = orders[k]]_vars

\* an order was picked up while another was not_started, which the page
\* now keeps from being started
C35_Witness ==
  /\ last.op = "handlePickUp"
  /\ CountInProgress(orders) = 1
  /\ \E k \in 1..Len(orders) : orders[k].status = "not_started"
  /\ \E k \in 1..Len(orders) : orders[k].id = last.arg /\ orders[k].status = "in_progress"

\* C36: when the resolver returns failure to a manual action, the pending
\* entry of that attempt gets the result {name: 'error', emoji: x-mark} and
\* no other entry changes, the inventory is unchanged, the call is no
\* longer in flight, and activeAction is null.
C36_ManualFailureWritesSentinel ==
  [][(/\ last'.op = "executeAction-returns"
      /\ last'.pre = NullIngredient
      /\ vars' # vars)
     => /\ Len(timeline') = Len(timeline)
        /\ \E k \in 1..Len(timeline) :
             /\ timeline[k].id = last'.arg
             /\ timeline[k].result = NullIngredient
             /\ timeline'[k] = [timeline[k] EXCEPT
                                  !.result = [name |-> <<"e", "r", "r", "o", "r">>, emoji |-> "x-mark"]]
             /\ \A m \in 1..Len(timeline) : m # k => timeline'[m] = timeline[m]
        /\ inventory' = inventory
        /\ orders' = orders
        /\ Len(manualCalls') = Len(manualCalls) - 1
        /\ \A i \in 1..Len(manualCalls') : manualCalls'[i].id # last'.arg
        /\ activeAction' = "null"
        /\ ~crashed']_vars

\* the user's boil failed in the resolver: its entry shows the sentinel,
\* the inventory is the seed inventory and the tiles are free again
C36_Witness ==
  /\ last.op = "executeAction-returns"
  /\ last.pre = NullIngredient
  /\ last.combination.kind \in {"error", "badjson"}
  /\ inventory = STARTING_INGREDIENTS
  /\ activeAction = "null"
  /\ manualCalls = <<>>
  /\ \E k \in 1..Len(timeline) :
       timeline[k].id = last.arg /\ timeline[k].result.name = <<"e", "r", "r", "o", "r">>

\* C37: a tool call whose name is not serve_on_leaf, not pass and not the
\* name of an action of COOKING_ACTIONS is answered with a failure that
\* names it, and the step changes neither timeline, inventory nor ledger,
\* starts no resolver call and no verification, and leaves the buffered
\* text in its slot.
C37_UnknownActionRefused ==
  [][(/\ last'.op \in {"tool-serve", "tool-pass", "tool-unknown", "tool-missing", "tool-action"}
      /\ vars' # vars
      /\ \A i \in 1..Len(COOKING_ACTIONS) : COOKING_ACTIONS[i].name # last'.call.name)
     => /\ last'.op = "tool-unknown"
        /\ last'.response.name = last'.call.name
        /\ last'.response.success = FALSE
        /\ last'.response.error # ""
        /\ timeline' = timeline
        /\ inventory' = inventory
        /\ orders' = orders
        /\ manualCalls' = manualCalls
        /\ verifs' = verifs
        /\ agent'.pc = "idle"
        /\ activeAction' = activeAction
        /\ pendingText' = pendingText]_vars

\* the planner called 'fly' with a text: the call was refused and the text
\* is still buffered
C37_Witness ==
  /\ last.op = "tool-unknown"
  /\ last.call.name = "fly"
  /\ last.response.success = FALSE
  /\ pendingText # NoText
  /\ timeline = <<>>
  /\ inventory = STARTING_INGREDIENTS

\* C38: after every step, isCooking implies that an order is in_progress.
\* The flag goes up only in a single or batch AI cook request, which leaves
\* an order in_progress; the pass tool call takes it down, and so does the
\* end of a serve that leaves no order in_progress.
C38_CookingImpliesActiveOrder ==
  [][vars' # vars =>
       /\ isCooking' => CountInProgress(orders') >= 1
       /\ (isCooking' /\ ~isCooking) =>
            last'.op \in {"handleCookWithGemini", "handleCookBatchWithGemini"}
       /\ last'.op = "tool-pass" => ~isCooking'
       /\ (/\ last'.op \in {"verify-match", "verify-fail", "tool-serve", "executeAction-serve"}
           /\ Len(verifs') <= Len(verifs)
           /\ CountInProgress(orders') = 0) => ~isCooking']_vars

\* two orders were cooked as a batch and one has been served: the other is
\* in_progress and the flag is up
C38_Witness ==
  /\ last.op = "verify-match"
  /\ isCooking
  /\ CountInProgress(orders) = 1
  /\ \E k \in 1..Len(orders) : orders[k].id = last.arg /\ orders[k].status = "completed"

\* C39: when the dispatcher of a regular tool call gets no ingredient,
\* because the completion service failed or because no resolver is wired,
\* the call's entry goes from pending to the ingredient named
\* '<display name>ed items' with the action's emoji, the inventory gets
\* that ingredient in front unless it holds its key, and the planner is
\* told success = true with that name and emoji.
C39_FallbackOnNoIngredient ==
  [][(/\ last'.op \in {"tool-returns", "tool-crash"}
      /\ last'.combination.kind \in {"error", "badjson", "unwired"}
      /\ vars' # vars)
     => \E k \in 1..Len(timeline) :
          \E a \in 1..Len(COOKING_ACTIONS) :
            LET name == COOKING_ACTIONS[a].displayName \o <<"e", "d", " ", "i", "t", "e", "m", "s">>
                emoji == COOKING_ACTIONS[a].emoji
            IN
            /\ timeline[k].id = last'.arg
            /\ COOKING_ACTIONS[a].name = timeline[k].action
            /\ timeline[k].result = NullIngredient
            /\ timeline'[k] = [timeline[k] EXCEPT !.result = [name |-> name, emoji |-> emoji]]
            /\ IF \E m \in 1..Len(inventory) : Canonical(inventory[m].name) = Canonical(name)
               THEN inventory' = inventory
               ELSE inventory' = <<[name |-> name, emoji |-> emoji]>> \o inventory
            /\ last'.op = "tool-returns"
            /\ last'.response.name = timeline[k].action
            /\ last'.response.success = TRUE
            /\ last'.response.result = name
            /\ last'.response.emoji = emoji
            /\ last'.response.error = ""]_vars

\* no resolver was wired for the planner's second boil: its entry shows
\* 'boiled items', which the first boil had already put in the inventory
C39_Witness ==
  /\ last.op = "tool-returns"
  /\ last.combination.kind = "unwired"
  /\ last.response.success = TRUE
  /\ Len(timeline) = 2
  /\ timeline[2].id = last.arg
  /\ timeline[1].result = timeline[2].result
  /\ timeline[2].result = inventory[1]
  /\ inventory[1].name = BoiledItems
  /\ Len(inventory) = Len(STARTING_INGREDIENTS) + 1

====
